---- MODULE Spec2Model ----
(***************************************************************************)
(* A model of the dispatch core of the anjani bot: the plugin registry     *)
(* (core/plugin_extenter.py), the lazily installed platform event handlers *)
(* (core/telegram_bot.py), the Command object (command.py) and the         *)
(* argument converter (util/converter.py).                                 *)
(*                                                                         *)
(* The command table and the listener table live in command_dispatcher.py  *)
(* and event_dispatcher.py, which are not part of the sources at hand:     *)
(* register_commands, unregister_commands, register_listeners and          *)
(* unregister_listeners are modelled from the specification.               *)
(***************************************************************************)
EXTENDS Integers, Sequences, FiniteSets, TLC

VARIABLES
    custom_subplugins,      \* custom_plugins.subplugins: the discovered custom classes
    plugins,                \* PluginExtender.plugins, a dict in insertion order
    commands,               \* the command table: token -> Command
    listeners,              \* the listener table: event name -> listeners
    plugin_event_handlers,  \* TelegramBot._plugin_event_handlers (its keys)
    client_handlers,        \* handlers installed on the platform client, per event
    lastOp,                 \* the registry operation that ran last
    lastArg,                \* the class (of the plugin) it was called with
    raised,                 \* the exception the last operation ended with
    constructed,            \* the classes the last operation instantiated
    unloaded,               \* the classes the last operation called unload_plugin on
    tasks,                  \* the tasks the last operation returned
    cycle,                  \* where the run stands in load-all / unload-all / load-all
    sig,                    \* parse_arguments: the handler's parameters after ctx
    conv_func,              \* parse_arguments: its func argument
    to_convert,             \* parse_arguments: ctx.args
    msg_entities,           \* ctx.msg.entities
    client_reply,           \* how the platform client answered the last lookup
    conv_pc,                \* parse_arguments: "idle", "loop", "done" or "raised"
    items,                  \* parse_arguments: the parameters still to come
    idx,                    \* parse_arguments: idx
    args,                   \* parse_arguments: args
    kwargs,                 \* parse_arguments: kwargs
    conv_raised,            \* the exception parse_arguments ended with
    cmd_objs,               \* the Command objects constructed so far
    flt_anjani,             \* per filter instance: its attribute anjani
    injections,             \* per filter instance: how often anjani was assigned
    inv_pc,                 \* on_command: "idle", "filter", "convert", "handler", "done",
                            \*   "dropped" or "raised"
    inv_cmd,                \* on_command: the command being invoked
    inv_event,              \* on_command: the inbound message
    inv_trace,              \* on_command: the leaves evaluated, with their results
    inv_effects,            \* on_command: what the invocation did beyond the predicate
    bk_pc,                  \* cmd_backup: "idle", "loop", "collected" or "returned"
    bk_tasks,               \* cmd_backup: tasks, what dispatch_event returned
    bk_i,                   \* cmd_backup: position of the for loop in tasks
    bk_data,                \* cmd_backup: the keys of data
    bk_file,                \* cmd_backup: whether the file was written, and with which keys
    bk_return,              \* cmd_backup: the value returned
    bk_raised,              \* cmd_backup: the exception that left the handler
    bk_done,                \* cmd_backup: the tasks that completed, in order of completion
    bk_payload,             \* cmd_backup: data, as its (key, value) items
    st_pc,                  \* start: the statement it is at, "idle", "done" or "raised"
    loaded,                 \* the bot's field loaded
    st_event,               \* start: the lifecycle event being dispatched, or None
    st_pos,                 \* start: position of that dispatch in the event's listeners
    st_done,                \* start: the handlers that completed, in order of completion
    st_returned,            \* start: the events whose dispatch has returned
    st_client,              \* whether the platform client is started and delivers events
    st_host,                \* which of user/uid, staff and chats_languages start has set
    st_inbound,             \* the host as the last inbound command found it, or NoInbound
    dp_pc,                  \* dispatch_event: "idle", "scheduling" or "returned"
    dp_event,               \* dispatch_event: the event dispatched
    dp_pos,                 \* dispatch_event: position in the event's listeners
    dp_tasks,               \* dispatch_event: the handler tasks scheduled, with their state
    rs_response,            \* Context.response: the tracked message, or NoMessage
    rs_sent,                \* the number of messages sent for this invocation
    rs_deleted,             \* the messages deleted
    rs_scheduled,           \* the messages a background task is going to delete
    rs_calls,               \* the number of Context.respond calls of this invocation
    rs_last,                \* the last Context.respond call: its arguments and what it did
    rs_hist,                \* what kinds of call the invocation has made so far
    cx_msg,                 \* Context: the message, its text and its command list
    cx_ctx,                 \* Context: input, segments and invoker as __init__ set them
    cx_args,                \* Context: the attribute args, or Unset
    cx_computed,            \* Context: how often _get_args has run
    cx_reads,               \* Context: the values the accesses to args returned
    rt_pc,                  \* cmd_restore: "idle", "backed_up", "dispatched" or "returned"
    rt_store,               \* per plugin: the document of the chat in its collection
    rt_saved,               \* per plugin: that document when the backup was taken
    rt_data,                \* the mapping of the backup file
    rt_handlers,            \* per plugin: the state of its on_plugin_restore task
    rt_reply,               \* cmd_restore: the text it answered last
    rd_config,              \* the bot's config: api_id, api_hash, bot_token, db_uri
    rd_text,                \* respond: the text it was called with last
    rd_redact,              \* respond: its argument redact
    rd_delivered            \* respond: the text handed to the client

registry_vars == <<custom_subplugins, plugins, commands, listeners, plugin_event_handlers,
                   client_handlers, lastOp, lastArg, raised, constructed, unloaded, tasks,
                   cycle>>

converter_vars == <<sig, conv_func, to_convert, msg_entities, client_reply, conv_pc, items, idx,
                    args, kwargs, conv_raised>>

command_vars == <<cmd_objs, flt_anjani, injections, inv_pc, inv_cmd, inv_event, inv_trace,
                  inv_effects>>

backup_vars == <<bk_pc, bk_tasks, bk_i, bk_data, bk_file, bk_return, bk_raised, bk_done,
                 bk_payload>>

start_vars == <<st_pc, loaded, st_event, st_pos, st_done, st_returned, st_client, st_host,
                st_inbound>>

dispatch_vars == <<dp_pc, dp_event, dp_pos, dp_tasks>>

respond_vars == <<rs_response, rs_sent, rs_deleted, rs_scheduled, rs_calls, rs_last, rs_hist>>

context_vars == <<cx_msg, cx_ctx, cx_args, cx_computed, cx_reads>>

\* the components other than the registry and the one an operation belongs to
restore_vars == <<rt_pc, rt_store, rt_saved, rt_data, rt_handlers, rt_reply>>

redact_vars == <<rd_config, rd_text, rd_redact, rd_delivered>>

other_vars == <<context_vars, restore_vars, redact_vars>>

vars == <<registry_vars, converter_vars, command_vars, backup_vars, start_vars,
          dispatch_vars, respond_vars, other_vars>>

\* what an operation of one component leaves alone
not_registry_vars == <<converter_vars, command_vars, backup_vars, start_vars, dispatch_vars,
    respond_vars, other_vars>>

not_converter_vars == <<registry_vars, command_vars, backup_vars, start_vars, dispatch_vars,
    respond_vars, other_vars>>

not_command_vars == <<registry_vars, converter_vars, backup_vars, start_vars, dispatch_vars,
    respond_vars, other_vars>>

not_backup_vars == <<registry_vars, converter_vars, command_vars, start_vars, dispatch_vars,
    respond_vars, other_vars>>

\* start calls load_all_plugins: it leaves the registry to that call
not_start_vars == <<converter_vars, command_vars, backup_vars, dispatch_vars, respond_vars, other_vars>>

not_dispatch_vars == <<registry_vars, converter_vars, command_vars, backup_vars, start_vars,
                      respond_vars, other_vars>>

not_respond_vars == <<registry_vars, converter_vars, command_vars, backup_vars, start_vars,
                     dispatch_vars, other_vars>>

not_context_vars == <<registry_vars, converter_vars, command_vars, backup_vars, start_vars,
                     dispatch_vars, respond_vars, restore_vars, redact_vars>>

not_restore_vars == <<registry_vars, converter_vars, command_vars, backup_vars, start_vars,
                     dispatch_vars, respond_vars, context_vars, redact_vars>>

not_redact_vars == <<registry_vars, converter_vars, command_vars, backup_vars, start_vars,
                    dispatch_vars, respond_vars, context_vars, restore_vars>>

\* ------------------------------------------------------------------ helpers

None == "None"

Range(s) == {s[i] : i \in 1..Len(s)}

\* ------------------------------------------------------------------ bounds

\* Failed loads leave their listeners behind; at most this many such entries.
MaxStale == 5

\* ------------------------------------------------------------------ plugin classes
\* cmds: the cmd_ methods in dir() order, with what @command.filters set on them;
\* events: the on_ methods in dir() order.

Cmd(name, flt, aliases) == [name |-> name, filters |-> flt, aliases |-> aliases]

Admins ==
    [name |-> "Admins", disabled |-> FALSE,
     cmds |-> << Cmd("adminlist", None, <<>>), Cmd("demote", "can_promote", <<>>),
                 Cmd("pin", "can_pin", <<>>), Cmd("promote", "can_promote", <<>>),
                 Cmd("setgpic", "can_change_info", <<>>), Cmd("unpin", "can_pin", <<>>),
                 Cmd("zombies", "can_restrict", <<>>) >>,
     events |-> <<>>]

Backups ==
    [name |-> "Backups", disabled |-> FALSE,
     cmds |-> << Cmd("backup", "admin_only", <<>>), Cmd("restore", "admin_only", <<>>) >>,
     events |-> <<>>]

Notes ==
    [name |-> "Notes", disabled |-> FALSE,
     cmds |-> << Cmd("delnote", "admin_only", <<"clear">>), Cmd("get", None, <<>>),
                 Cmd("notes", None, <<>>), Cmd("save", "admin_only", <<>>) >>,
     events |-> <<"chat_migrate", "load", "message", "plugin_backup", "plugin_restore">>]

Purges ==
    [name |-> "Purges", disabled |-> FALSE,
     cmds |-> << Cmd("del", "can_delete", <<>>), Cmd("purge", "can_delete", <<"prune">>) >>,
     events |-> <<>>]

SpamShield ==
    [name |-> "SpamShield", disabled |-> FALSE,
     cmds |-> << Cmd("spamshield", "admin_only", <<>>) >>,
     events |-> <<"chat_action", "chat_migrate", "load", "message",
                  "plugin_backup", "plugin_restore">>]

Staff ==
    [name |-> "Staff Tools", disabled |-> FALSE,
     cmds |-> << Cmd("broadcast", "owner_only", <<>>), Cmd("chatlist", "staff_only", <<>>),
                 Cmd("leavechat", "staff_only", <<>>), Cmd("logs", "staff_only", <<>>) >>,
     events |-> <<"load">>]

ExamplePlugin ==
    [name |-> "Example", disabled |-> TRUE,
     cmds |-> << Cmd("cat", None, <<>>), Cmd("test", None, <<>>) >>,
     events |-> <<"callback_query", "chat_action", "chat_migrate", "load", "message",
                  "plugin_backup", "plugin_restore">>]

\* Classes handed to load_plugin that the repository does not ship: an enabled
\* custom plugin, a second class that declares the name "Notes", and a class whose
\* command tokens collide with those of Notes ("clear") and Purges ("del").
ExtraPlugin ==
    [name |-> "Extra", disabled |-> FALSE,
     cmds |-> << Cmd("extra", None, <<"more">>) >>,
     events |-> <<"callback_query", "load", "start", "started">>]

NotesDup ==
    [name |-> "Notes", disabled |-> FALSE,
     cmds |-> << Cmd("memo", None, <<>>) >>,
     events |-> <<"message">>]

Clash ==
    [name |-> "Clash", disabled |-> FALSE,
     cmds |-> << Cmd("clash", None, <<"del">>), Cmd("clear", None, <<>>) >>,
     events |-> <<"inline_query">>]

ClassIds == {"Admins", "Backups", "Notes", "Purges", "SpamShield", "Staff",
             "ExamplePlugin", "ExtraPlugin", "NotesDup", "Clash"}

ClassDef(cls) ==
    CASE cls = "Admins" -> Admins
      [] cls = "Backups" -> Backups
      [] cls = "Notes" -> Notes
      [] cls = "Purges" -> Purges
      [] cls = "SpamShield" -> SpamShield
      [] cls = "Staff" -> Staff
      [] cls = "ExamplePlugin" -> ExamplePlugin
      [] cls = "ExtraPlugin" -> ExtraPlugin
      [] cls = "NotesDup" -> NotesDup
      [] cls = "Clash" -> Clash

\* plugins.subplugins: the built-in modules the run discovers, one plugin class each
builtin_subplugins == <<"Notes", "Purges", "SpamShield">>

\* custom_plugins.subplugins as the repository ships it, and with one more module
CustomSets == { <<"ExamplePlugin">>, <<"ExamplePlugin", "ExtraPlugin">> }

BuiltinEvents == {"callback_query", "chat_action", "chat_migrate", "inline_query", "message"}

\* ------------------------------------------------------------------ registry state
\* The operations are written over a record R of the bot's registry fields, so that
\* load_all_plugins and unload_all_pluginss can call load_plugin and unload_plugin.

EmptyFn == [x \in {} |-> None]

EmptyRegistry ==
    [plugins |-> <<>>, commands |-> EmptyFn, listeners |-> EmptyFn,
     plugin_event_handlers |-> {},
     client_handlers |-> [e \in BuiltinEvents |-> 0],
     raised |-> None, constructed |-> <<>>, unloaded |-> <<>>, tasks |-> <<>>]

LoadedNames(R) == {R.plugins[i].name : i \in 1..Len(R.plugins)}

LoadedClasses(R) == {R.plugins[i].cls : i \in 1..Len(R.plugins)}

\* A plugin instance. The instance the registry holds is identified by its class;
\* a listener whose instance never entered the registry is flagged stale.
Plugin(cls, comment) == [name |-> ClassDef(cls).name, cls |-> cls, comment |-> comment]

\* ------------------------------------------------------------------ command.py

\* Command.__init__ reading the aliases from an attribute the decorator never sets
Command_without_aliases(name, plug, func) ==
    [name |-> name, filters |-> func.filters, aliases |-> <<>>,
     plugin |-> plug.cls, func |-> <<plug.cls, func.name>>]

\* Command.__init__: name, filters and aliases as the decorator left them on func
Command(name, plug, func) ==
    [name |-> name, filters |-> func.filters, aliases |-> func.aliases,
     plugin |-> plug.cls, func |-> <<plug.cls, func.name>>]

\* ------------------------------------------------------------------ telegram_bot.py

\* update_plugin_event removing the client's handler and keeping its own entry
update_plugin_event_keeps_entry(R, name) ==
    IF name \in DOMAIN R.listeners
    THEN IF name \notin R.plugin_event_handlers
         THEN [R EXCEPT !.client_handlers[name] = @ + 1,
                        !.plugin_event_handlers = @ \cup {name}]
         ELSE R
    ELSE IF name \in R.plugin_event_handlers
         THEN [R EXCEPT !.client_handlers[name] = @ - 1]
         ELSE R

\* update_plugin_event adding a handler whenever the name has listeners
update_plugin_event_reinstalls(R, name) ==
    IF name \in DOMAIN R.listeners
    THEN [R EXCEPT !.client_handlers[name] = @ + 1,
                   !.plugin_event_handlers = @ \cup {name}]
    ELSE IF name \in R.plugin_event_handlers
         THEN [R EXCEPT !.client_handlers[name] = @ - 1,
                        !.plugin_event_handlers = @ \ {name}]
         ELSE R

update_plugin_event(R, name) ==
    IF name \in DOMAIN R.listeners
    THEN IF name \notin R.plugin_event_handlers
         THEN [R EXCEPT !.client_handlers[name] = @ + 1,
                        !.plugin_event_handlers = @ \cup {name}]
         ELSE R
    ELSE IF name \in R.plugin_event_handlers
         THEN [R EXCEPT !.client_handlers[name] = @ - 1,
                        !.plugin_event_handlers = @ \ {name}]
         ELSE R

update_plugin_events(R) ==
    update_plugin_event(
      update_plugin_event(
        update_plugin_event(
          update_plugin_event(
            update_plugin_event(R, "callback_query"),
            "chat_action"),
          "chat_migrate"),
        "inline_query"),
      "message")

events_activated(R) == Cardinality(R.plugin_event_handlers)

\* ------------------------------------------------------------------ the tables

Listener(plug, event) == [plugin |-> plug.cls, event |-> event, stale |-> FALSE]

register_listener(R, plug, event) ==
    LET old == IF event \in DOMAIN R.listeners THEN R.listeners[event] ELSE <<>>
    IN [R EXCEPT !.listeners =
            [e \in DOMAIN R.listeners \cup {event} |->
                IF e = event THEN Append(old, Listener(plug, event)) ELSE R.listeners[e]]]

RECURSIVE register_listener_loop(_, _, _)
register_listener_loop(R, plug, events) ==
    IF events = <<>> THEN R
    ELSE register_listener_loop(register_listener(R, plug, Head(events)), plug, Tail(events))

register_listeners(R, plug) ==
    update_plugin_events(register_listener_loop(R, plug, ClassDef(plug.cls).events))

\* the entries of a listener list that the instance plug does not own
OthersOf(ls, plug) ==
    LET RECURSIVE keep(_)
        keep(s) == IF s = <<>> THEN <<>>
                   ELSE IF Head(s).plugin = plug.cls /\ ~Head(s).stale
                        THEN keep(Tail(s))
                        ELSE <<Head(s)>> \o keep(Tail(s))
    IN keep(ls)

unregister_listeners(R, plug) ==
    LET left == {e \in DOMAIN R.listeners : OthersOf(R.listeners[e], plug) # <<>>}
    IN update_plugin_events(
         [R EXCEPT !.listeners = [e \in left |-> OthersOf(R.listeners[e], plug)]])

unregister_commands(R, plug) ==
    LET left == {t \in DOMAIN R.commands : R.commands[t].plugin # plug.cls}
    IN [R EXCEPT !.commands = [t \in left |-> R.commands[t]]]

Bind(R, token, cmd) ==
    [R EXCEPT !.commands = [t \in DOMAIN R.commands \cup {token} |->
                               IF t = token THEN cmd ELSE R.commands[t]]]

RECURSIVE register_aliases(_, _, _)
register_aliases(R, cmd, aliases) ==
    IF aliases = <<>> THEN R
    ELSE IF Head(aliases) \in DOMAIN R.commands
         THEN [R EXCEPT !.raised = "ExistingCommandError"]
         ELSE register_aliases(Bind(R, Head(aliases), cmd), cmd, Tail(aliases))

register_command(R, cmd) ==
    IF cmd.name \in DOMAIN R.commands
    THEN [R EXCEPT !.raised = "ExistingCommandError"]
    ELSE register_aliases(Bind(R, cmd.name, cmd), cmd, cmd.aliases)

RECURSIVE register_command_loop(_, _, _)
register_command_loop(R, plug, funcs) ==
    IF funcs = <<>> THEN R
    ELSE LET R1 == register_command(R, Command(Head(funcs).name, plug, Head(funcs)))
         IN IF R1.raised # None THEN R1
            ELSE register_command_loop(R1, plug, Tail(funcs))

\* a collision is an error, and the plugin's own bindings made so far are withdrawn
register_commands(R, plug) ==
    LET R1 == register_command_loop(R, plug, ClassDef(plug.cls).cmds)
    IN IF R1.raised # None THEN unregister_commands(R1, plug) ELSE R1

\* the instance of a load that failed is dropped; what it registered stays behind
MarkStale(R, plug) ==
    [R EXCEPT !.listeners =
        [e \in DOMAIN R.listeners |->
            [i \in 1..Len(R.listeners[e]) |->
                IF R.listeners[e][i].plugin = plug.cls
                THEN [R.listeners[e][i] EXCEPT !.stale = TRUE]
                ELSE R.listeners[e][i]]]]

StaleCount(R) ==
    LET RECURSIVE sum(_)
        sum(S) == IF S = {} THEN 0
                  ELSE LET e == CHOOSE x \in S : TRUE
                       IN Cardinality({i \in 1..Len(R.listeners[e]) : R.listeners[e][i].stale})
                          + sum(S \ {e})
    IN sum(DOMAIN R.listeners)

\* ------------------------------------------------------------------ the event dispatcher

\* the task that runs one listener's handler
Task(listener) ==
    [plugin |-> listener.plugin, event |-> listener.event, stale |-> listener.stale]

\* dispatch_event(event, ..., get_tasks=True): one task per listener of the event
dispatch_event(R, event) ==
    IF event \notin DOMAIN R.listeners THEN R
    ELSE [R EXCEPT !.tasks =
            [i \in 1..Len(R.listeners[event]) |-> Task(R.listeners[event][i])]]

\* ------------------------------------------------------------------ plugin_extenter.py

\* load_plugin storing the instance before it registers the commands
load_plugin_stores_first(R, cls, comment) ==
    IF ClassDef(cls).name \in LoadedNames(R)
    THEN [R EXCEPT !.raised = "ExistingPluginError"]
    ELSE LET plug == Plugin(cls, comment)
             R1 == [R EXCEPT !.constructed = Append(@, cls), !.plugins = Append(@, plug)]
             R2 == register_listeners(R1, plug)
         IN register_commands(R2, plug)

\* load_plugin without the test for a loaded plugin of that name: the dict entry
\* of the name is overwritten
load_plugin_unchecked(R, cls, comment) ==
    LET plug == Plugin(cls, comment)
        R1 == [R EXCEPT !.constructed = Append(@, cls)]
        R2 == register_listeners(R1, plug)
        R3 == register_commands(R2, plug)
    IN IF R3.raised # None
       THEN MarkStale(R3, plug)
       ELSE [R3 EXCEPT !.plugins =
                IF plug.name \in LoadedNames(R3)
                THEN [i \in 1..Len(@) |-> IF @[i].name = plug.name THEN plug ELSE @[i]]
                ELSE Append(@, plug)]

load_plugin(R, cls, comment) ==
    IF ClassDef(cls).name \in LoadedNames(R)
    THEN [R EXCEPT !.raised = "ExistingPluginError"]
    ELSE LET plug == Plugin(cls, comment)
             R1 == [R EXCEPT !.constructed = Append(@, cls)]
             R2 == register_listeners(R1, plug)
             R3 == register_commands(R2, plug)
         IN IF R3.raised # None
            THEN MarkStale(R3, plug)
            ELSE [R3 EXCEPT !.plugins = Append(@, plug)]

\* unload_plugin without the call of unregister_listeners
unload_plugin_keeps_listeners(R, plug) ==
    LET R2 == unregister_commands([R EXCEPT !.unloaded = Append(@, plug.cls)], plug)
    IN IF plug.name \in LoadedNames(R2)
       THEN [R2 EXCEPT !.plugins = SelectSeq(@, LAMBDA p : p.name # plug.name)]
       ELSE [R2 EXCEPT !.raised = "KeyError"]

unload_plugin(R, plug) ==
    LET R1 == unregister_listeners([R EXCEPT !.unloaded = Append(@, plug.cls)], plug)
        R2 == unregister_commands(R1, plug)
    IN IF plug.name \in LoadedNames(R2)
       THEN [R2 EXCEPT !.plugins = SelectSeq(@, LAMBDA p : p.name # plug.name)]
       ELSE [R2 EXCEPT !.raised = "KeyError"]

\* _load_all_from_metaplug without the test of cls.disabled
RECURSIVE load_all_with_disabled(_, _, _)
load_all_with_disabled(R, subplugins, comment) ==
    IF subplugins = <<>> \/ R.raised # None THEN R
    ELSE load_all_with_disabled(load_plugin(R, Head(subplugins), comment),
                                Tail(subplugins), comment)

RECURSIVE load_all_from_metaplug(_, _, _)
load_all_from_metaplug(R, subplugins, comment) ==
    IF subplugins = <<>> \/ R.raised # None THEN R
    ELSE load_all_from_metaplug(
            IF ClassDef(Head(subplugins)).disabled THEN R
            ELSE load_plugin(R, Head(subplugins), comment),
            Tail(subplugins), comment)

load_all_plugins(R, custom) ==
    LET R1 == load_all_from_metaplug(R, builtin_subplugins, None)
    IN load_all_from_metaplug(R1, custom, "custom")

RECURSIVE unload_each(_, _)
unload_each(R, snapshot) ==
    IF snapshot = <<>> \/ R.raised # None THEN R
    ELSE unload_each(unload_plugin(R, Head(snapshot)), Tail(snapshot))

\* unload_all_pluginss iterating self.plugins.values() itself: the dict changes
\* size under the iterator, whose next step raises RuntimeError
unload_all_over_live_dict(R) ==
    IF R.plugins = <<>> THEN R
    ELSE [unload_plugin(R, Head(R.plugins)) EXCEPT !.raised = "RuntimeError"]

\* "Can't modify while iterating, so collect a list first"
unload_all_pluginss(R) == unload_each(R, R.plugins)

\* ------------------------------------------------------------------ converter.py: values
\* Strings are sequences of characters. A Python value is a record of its type t
\* with an integer payload i, a string payload s and, for an exception object, its
\* class and the converter and the cause it carries.

Val(t, i, str, exc, converter, cause) ==
    [t |-> t, i |-> i, s |-> str, exc |-> exc, converter |-> converter, cause |-> cause]

IntV(n) == Val("int", n, <<>>, None, None, None)

StrV(str) == Val("str", 0, str, None, None, None)

BoolV(b) == Val("bool", IF b THEN 1 ELSE 0, <<>>, None, None, None)

NoneV == Val("NoneType", 0, <<>>, None, None, None)

\* a platform object (User, Chat, ChatMember, or a list of them) resolved from key
ObjV(t, key) == Val(t, 0, key, None, None, None)

\* an exception object: its class, and the converter and the cause it carries
ExcV(exc, converter, cause) == Val("exception", 0, <<>>, exc, converter, cause)

\* inspect.Parameter.empty
Empty == Val("empty", 0, <<>>, None, None, None)

\* what a call ends with: a returned value, or a raised exception
Ret(v) == [raised |-> None, value |-> v]

Raise(exc) == [raised |-> exc.exc, value |-> exc]

Digits == <<"0", "1", "2", "3", "4", "5", "6", "7", "8", "9">>

DigitValue(c) == (CHOOSE k \in 1..10 : Digits[k] = c) - 1

IsDigitChar(c) == \E k \in 1..10 : Digits[k] = c

\* str.isdigit
isdigit(str) == Len(str) > 0 /\ \A k \in 1..Len(str) : IsDigitChar(str[k])

\* str.startswith
startswith(str, prefix) ==
    Len(str) >= Len(prefix) /\ SubSeq(str, 1, Len(prefix)) = prefix

UpperCase == <<"A", "B", "E", "F", "L", "M", "N", "O", "S", "T", "U", "Y">>

LowerCase == <<"a", "b", "e", "f", "l", "m", "n", "o", "s", "t", "u", "y">>

LowerChar(c) ==
    IF \E k \in 1..Len(UpperCase) : UpperCase[k] = c
    THEN LowerCase[CHOOSE k \in 1..Len(UpperCase) : UpperCase[k] = c]
    ELSE c

\* str.lower
lower(str) == [k \in 1..Len(str) |-> LowerChar(str[k])]

RECURSIVE DecimalValue(_)
DecimalValue(digits) ==
    IF digits = <<>> THEN 0
    ELSE 10 * DecimalValue(SubSeq(digits, 1, Len(digits) - 1))
         + DigitValue(digits[Len(digits)])

\* int(str): an optional sign and decimal digits, ValueError otherwise
int(str) ==
    LET signed == Len(str) > 0 /\ str[1] \in {"-", "+"}
        digits == IF signed THEN Tail(str) ELSE str
    IN IF isdigit(digits)
       THEN Ret(IntV(IF signed /\ str[1] = "-" THEN 0 - DecimalValue(digits)
                     ELSE DecimalValue(digits)))
       ELSE Raise(ExcV("ValueError", None, None))

\* ------------------------------------------------------------------ converter.py: annotations

\* a plain annotation T, and typing.Union[a, b] with its __args__
Plain(T) == [origin |-> None, args |-> <<T>>]

Union(a, b) == [origin |-> "Union", args |-> <<a, b>>]

\* Optional[T] is Union[T, None], whose __args__ are (T, NoneType)
Optional(T) == Union(T, "NoneType")

NoAnnotation == Plain("empty")

\* isinstance(converter, (FunctionType, partial)): to_number is def to_number(arg):
\* return int(arg); fetch_number is the same as a coroutine function
IsFunction(converter) == converter \in {"to_number", "fetch_number"}

\* converter.__module__
ModuleOf(converter) ==
    CASE converter \in {"User", "Chat", "ChatMember"} -> "pyrogram.types"
      [] converter \in {"UserConverter", "ChatConverter", "ChatMemberConverter"}
           -> "anjani.util.converter"
      [] OTHER -> "builtins"

CONVERTER_MAP(converter) ==
    CASE converter = "User" -> "UserConverter"
      [] converter = "Chat" -> "ChatConverter"
      [] converter = "ChatMember" -> "ChatMemberConverter"
      [] OTHER -> converter

IsConverterClass(converter) ==
    converter \in {"UserConverter", "ChatConverter", "ChatMemberConverter"}

\* ------------------------------------------------------------------ converter.py: converters
\* ctx.reply is how the platform client answers the lookup: with an object of the
\* expected type ("ok"), with a list ("list"), or by raising PeerIdInvalid or
\* another error. ctx.entities is msg.entities: None (iterating it is a TypeError),
\* or a list, of which the texts that its text-mention entities cover are kept.

Replies == {"ok", "list", "PeerIdInvalid", "UsernameNotOccupied"}

\* EntityConverter.parse_entities
parse_entities(ctx, arg) ==
    IF ctx.entities.none
    THEN Raise(ExcV("TypeError", None, None))
    ELSE IF arg \in ctx.entities.mentions THEN Ret(ObjV("User", arg)) ELSE Ret(NoneV)

UserConverter(ctx, arg) ==
    IF isdigit(arg) \/ startswith(arg, <<"@">>)
    THEN CASE ctx.reply = "ok" -> Ret(ObjV("User", arg))
           [] ctx.reply = "list" -> Raise(ExcV("BadResult", None, None))
           [] ctx.reply = "PeerIdInvalid" ->
                Raise(ExcV("ConversionError", "UserConverter", "PeerIdInvalid"))
           [] OTHER -> Raise(ExcV(ctx.reply, None, None))
    ELSE parse_entities(ctx, arg)

\* a ChatConverter that returns whatever the client returned
ChatConverter_returns_any(ctx, arg) ==
    CASE ctx.reply = "ok" -> Ret(ObjV("Chat", arg))
      [] ctx.reply = "list" -> Ret(ObjV("list", arg))
      [] ctx.reply = "PeerIdInvalid" ->
           Raise(ExcV("ConversionError", "ChatConverter", "PeerIdInvalid"))
      [] OTHER -> Raise(ExcV(ctx.reply, None, None))

ChatConverter(ctx, arg) ==
    CASE ctx.reply = "ok" -> Ret(ObjV("Chat", arg))
      [] ctx.reply = "list" -> Raise(ExcV("BadResult", None, None))
      [] ctx.reply = "PeerIdInvalid" ->
           Raise(ExcV("ConversionError", "ChatConverter", "PeerIdInvalid"))
      [] OTHER -> Raise(ExcV(ctx.reply, None, None))

\* ChatMemberConverter.get_member: whatever the client returns is returned
get_member(ctx, user_id) ==
    CASE ctx.reply = "ok" -> Ret(ObjV("ChatMember", user_id))
      [] ctx.reply = "list" -> Ret(ObjV("list", user_id))
      [] ctx.reply = "PeerIdInvalid" ->
           Raise(ExcV("ConversionError", "ChatMemberConverter", "PeerIdInvalid"))
      [] OTHER -> Raise(ExcV(ctx.reply, None, None))

ChatMemberConverter(ctx, arg) ==
    IF isdigit(arg) \/ startswith(arg, <<"@">>)
    THEN get_member(ctx, arg)
    ELSE LET res == parse_entities(ctx, arg)
         IN IF res.raised # None THEN res
            ELSE IF res.value # NoneV THEN get_member(ctx, res.value.s)
            ELSE Ret(NoneV)

BoolTrue == { <<"y","e","s">>, <<"t","r","u","e">>, <<"e","n","a","b","l","e">>,
              <<"o","n">>, <<"1">> }

BoolFalse == { <<"n","o">>, <<"f","a","l","s","e">>, <<"d","i","s","a","b","l","e">>,
               <<"o","f","f">>, <<"0">> }

\* _bool_converter comparing arg itself, without arg.lower()
bool_converter_case_sensitive(arg) ==
    IF arg \in BoolTrue THEN Ret(BoolV(TRUE))
    ELSE IF arg \in BoolFalse THEN Ret(BoolV(FALSE))
    ELSE Raise(ExcV("BadBoolArgument", None, None))

bool_converter(arg) ==
    IF lower(arg) \in BoolTrue THEN Ret(BoolV(TRUE))
    ELSE IF lower(arg) \in BoolFalse THEN Ret(BoolV(FALSE))
    ELSE Raise(ExcV("BadBoolArgument", None, None))

\* _get_default returning the fallback even when the parameter declares a default
get_default_ignores_declared(param, default) == default

get_default(param, default) ==
    IF param.default # Empty THEN param.default ELSE default

\* converter(arg) for a converter that is called as it stands; NoneType(arg) is a
\* TypeError
Call(converter, arg) ==
    CASE converter \in {"int", "to_number", "fetch_number"} -> int(arg)
      [] converter = "str" -> Ret(StrV(arg))
      [] OTHER -> Raise(ExcV("TypeError", None, None))

startswith_pyrogram(module) == module \in {"pyrogram.types"}

\* converter()(ctx, arg) for a Converter class
CallConverter(converter, ctx, arg) ==
    CASE converter = "UserConverter" -> UserConverter(ctx, arg)
      [] converter = "ChatConverter" -> ChatConverter(ctx, arg)
      [] OTHER -> ChatMemberConverter(ctx, arg)

\* the exception classes "except ConversionError" catches: BadResult, BadArgument
\* and BadBoolArgument are classes of their own
ConversionErrors == {"ConversionError"}

transform(ctx, param, arg) ==
    IF param.annotation = NoAnnotation THEN Ret(StrV(arg))
    ELSE
    LET annotation == param.annotation
        \* __args__[0] is compared with None, and no __args__ entry is None itself:
        \* the None alternative of a Union is the type NoneType
        converter0 == IF annotation.origin = "Union"
                      THEN IF annotation.args[1] = None THEN annotation.args[2]
                           ELSE annotation.args[1]
                      ELSE annotation.args[1]
    IN IF IsFunction(converter0) THEN Call(converter0, arg)
       ELSE
       LET converter == IF startswith_pyrogram(ModuleOf(converter0))
                        THEN CONVERTER_MAP(converter0) ELSE converter0
       IN IF IsConverterClass(converter)
          THEN LET res == CallConverter(converter, ctx, arg)
               IN IF res.raised \in ConversionErrors
                  THEN Ret(get_default(param, res.value))
                  ELSE res
          ELSE IF converter = "bool"
          THEN LET res == bool_converter(arg)
               IN IF res.raised = "BadBoolArgument"
                  THEN Ret(get_default(param, res.value))
                  ELSE res
          ELSE Call(converter, arg)

\* ------------------------------------------------------------------ converter.py: parse_arguments

Param(name, kind, annotation, default) ==
    [name |-> name, kind |-> kind, annotation |-> annotation, default |-> default]

Positional(name, annotation, default) ==
    Param(name, "POSITIONAL_OR_KEYWORD", annotation, default)

KeywordOnly(name, default) == Param(name, "KEYWORD_ONLY", NoAnnotation, default)

VarPositional(name) == Param(name, "VAR_POSITIONAL", NoAnnotation, Empty)

VarKeyword(name) == Param(name, "VAR_KEYWORD", NoAnnotation, Empty)

RECURSIVE join(_, _)
\* sep.join(strings)
join(sep, strings) ==
    IF strings = <<>> THEN <<>>
    ELSE IF Len(strings) = 1 THEN strings[1]
    ELSE strings[1] \o sep \o join(sep, Tail(strings))

RECURSIVE lstrip(_)
lstrip(str) == IF str # <<>> /\ Head(str) = " " THEN lstrip(Tail(str)) ELSE str

RECURSIVE rstrip(_)
rstrip(str) ==
    IF str # <<>> /\ str[Len(str)] = " " THEN rstrip(SubSeq(str, 1, Len(str) - 1)) ELSE str

\* str.strip
strip(str) == rstrip(lstrip(str))

\* The handler signatures parse_arguments is run on, each without its leading
\* Context parameter: those of the repository's plugins and of the specification's
\* examples, and one per converter kind with and without a default.
Signatures ==
    { <<>>,
      << Positional("enable", Optional("bool"), NoneV) >>,
      << Positional("user", Optional("User"), Empty) >>,
      << Positional("n", Plain("int"), IntV(5)) >>,
      << Positional("n", Plain("int"), Empty) >>,
      << Positional("enabled", Plain("bool"), Empty) >>,
      << Positional("enabled", Plain("bool"), BoolV(FALSE)) >>,
      << Positional("user", Plain("User"), NoneV) >>,
      << Positional("chat", Plain("Chat"), Empty) >>,
      << Positional("chat", Plain("Chat"), NoneV) >>,
      << Positional("member", Plain("ChatMember"), Empty) >>,
      << Positional("member", Plain("ChatMember"), NoneV) >>,
      << Positional("n", Plain("to_number"), IntV(5)) >>,
      << Positional("n", Plain("to_number"), Empty) >>,
      << Positional("n", Plain("fetch_number"), IntV(5)) >>,
      << Positional("x", NoAnnotation, Empty) >>,
      << Positional("n", Union("NoneType", "int"), NoneV) >>,
      << Positional("n", Plain("int"), IntV(5)), Positional("flag", Plain("bool"), BoolV(TRUE)) >>,
      << Positional("name", Plain("str"), Empty), KeywordOnly("text", Empty) >>,
      << KeywordOnly("text", StrV(<<"d">>)), KeywordOnly("more", Empty) >>,
      << Positional("x", NoAnnotation, Empty), VarKeyword("options") >>,
      << Positional("n", Plain("int"), IntV(5)), VarPositional("rest") >> }

\* What parse_arguments is handed as func: the handler function, as the parameter
\* is annotated (CommandFunc), which has no attribute "name", or the Command
\* object, whose name is the command's.
NoFunc == [kind |-> "none", name |-> None]

Funcs == { [kind |-> "function", name |-> None],
           [kind |-> "Command", name |-> "note"] }

\* the tokens of ctx.args
Tokens ==
    { <<"7">>, <<"1">>, <<"O", "n">>, <<"o", "f", "f">>, <<"a", "b", "c">>,
      <<"@", "b", "o", "b">> }

\* at most this many tokens in ctx.args
MaxTokens == 2

TokenLists == UNION {[1..n -> Tokens] : n \in 0..MaxTokens}

\* msg.entities: None, a list without text mention, a list with a mention of "abc"
EntitySets ==
    { [none |-> TRUE, mentions |-> {}],
      [none |-> FALSE, mentions |-> {}],
      [none |-> FALSE, mentions |-> {<<"a", "b", "c">>}] }

\* ------------------------------------------------------------------ filters and commands
\* A filter is a leaf (an instance made by filters.create) or a combination of
\* filters: base & other, base | other, ~base.

FilterLeaves == {"admin_only", "can_delete", "staff_only"}

\* staff_only and admin_only are created with include_bot, can_delete without
include_bot(leaf) == leaf \in {"admin_only", "staff_only"}

NoFilter == [op |-> "NONE"]

Leaf(leaf) == [op |-> "LEAF", leaf |-> leaf]

AndFilter(base, other) == [op |-> "AND", base |-> base, other |-> other]

OrFilter(base, other) == [op |-> "OR", base |-> base, other |-> other]

InvertFilter(base) == [op |-> "NOT", base |-> base]

\* the state of the filter instances: the attribute anjani of each, and how often
\* it was assigned
Uninjected ==
    [anjani |-> [l \in FilterLeaves |-> None], count |-> [l \in FilterLeaves |-> 0]]

Inject(st, leaf, anjani) ==
    [anjani |-> [st.anjani EXCEPT ![leaf] = anjani],
     count |-> [st.count EXCEPT ![leaf] = @ + 1]]

RECURSIVE check_filters_skips_other(_, _, _)
\* check_filters descending into base only
check_filters_skips_other(flt, anjani, st) ==
    LET s1 == IF flt.op \in {"AND", "OR", "NOT"}
              THEN check_filters_skips_other(flt.base, anjani, st) ELSE st
    IN IF flt.op = "LEAF" /\ include_bot(flt.leaf) THEN Inject(s1, flt.leaf, anjani) ELSE s1

RECURSIVE check_filters(_, _, _)
check_filters(flt, anjani, st) ==
    LET s1 == IF flt.op \in {"AND", "OR", "NOT"}
              THEN check_filters(flt.base, anjani, st) ELSE st
        s2 == IF flt.op \in {"AND", "OR"}
              THEN check_filters(flt.other, anjani, s1) ELSE s1
    IN IF flt.op = "LEAF" /\ include_bot(flt.leaf) THEN Inject(s2, flt.leaf, anjani) ELSE s2

\* Command.__init__ ends with: if self.filters: check_filters(self.filters, plugin.bot)
CommandInit(flt, st) == IF flt # NoFilter THEN check_filters(flt, "bot", st) ELSE st

\* the inbound message as the leaves see it: the chat type, what fetch_permissions
\* returns for the bot and the member, and whether the user is in the staff set
Events ==
    [private : BOOLEAN, bot_admin : BOOLEAN, bot_can_delete : BOOLEAN,
     member_can_delete : BOOLEAN, member_admin : BOOLEAN, user_staff : BOOLEAN]

NoEvent ==
    [private |-> FALSE, bot_admin |-> FALSE, bot_can_delete |-> FALSE,
     member_can_delete |-> FALSE, member_admin |-> FALSE, user_staff |-> FALSE]

LeafResult(exc, value) == [raised |-> exc, value |-> value]

\* user.id in flt.anjani.staff
staff_only(anjani, e) ==
    IF anjani = None THEN LeafResult("AttributeError", FALSE)
    ELSE LeafResult(None, e.user_staff)

\* _can_delete without its test of the chat type
can_delete_also_private(e) == LeafResult(None, e.bot_can_delete /\ e.member_can_delete)

can_delete(e) ==
    IF e.private THEN LeafResult(None, FALSE)
    ELSE LeafResult(None, e.bot_can_delete /\ e.member_can_delete)

\* bot.status == "administrator" and is_staff_or_admin(member, flt.anjani.staff)
admin_only(anjani, e) ==
    IF e.private THEN LeafResult(None, FALSE)
    ELSE IF ~e.bot_admin THEN LeafResult(None, FALSE)
    ELSE IF anjani = None THEN LeafResult("AttributeError", FALSE)
    ELSE LeafResult(None, e.member_admin \/ e.user_staff)

LeafCall(leaf, anjani, e) ==
    CASE leaf = "staff_only" -> staff_only(anjani[leaf], e)
      [] leaf = "can_delete" -> can_delete(e)
      [] leaf = "admin_only" -> admin_only(anjani[leaf], e)

\* Where the evaluation of a filter stands after the leaf results of trace: it
\* has a value, or it awaits the call of one more leaf.
Awaits(leaf) == [status |-> "await", leaf |-> leaf, value |-> FALSE, rest |-> <<>>]

Returns(value, rest) == [status |-> "return", leaf |-> None, value |-> value, rest |-> rest]

RECURSIVE Run_both_sides(_, _)
\* a combination that calls other whatever base returned
Run_both_sides(flt, trace) ==
    IF flt.op = "LEAF"
    THEN IF trace = <<>> THEN Awaits(flt.leaf) ELSE Returns(Head(trace)[2], Tail(trace))
    ELSE LET x == Run_both_sides(flt.base, trace)
         IN IF x.status = "await" THEN x
            ELSE IF flt.op = "NOT" THEN Returns(~x.value, x.rest)
            ELSE LET y == Run_both_sides(flt.other, x.rest)
                 IN IF y.status = "await" THEN y
                    ELSE IF flt.op = "AND" THEN Returns(x.value /\ y.value, y.rest)
                    ELSE Returns(x.value \/ y.value, y.rest)

RECURSIVE Run(_, _)
Run(flt, trace) ==
    IF flt.op = "LEAF"
    THEN IF trace = <<>> THEN Awaits(flt.leaf) ELSE Returns(Head(trace)[2], Tail(trace))
    ELSE LET x == Run(flt.base, trace)
         IN IF x.status = "await" THEN x
            ELSE IF flt.op = "NOT" THEN Returns(~x.value, x.rest)
            ELSE IF flt.op = "AND" /\ ~x.value THEN Returns(FALSE, x.rest)
            ELSE IF flt.op = "OR" /\ x.value THEN Returns(TRUE, x.rest)
            ELSE LET y == Run(flt.other, x.rest)
                 IN IF y.status = "await" THEN y
                    ELSE IF flt.op = "AND" THEN Returns(x.value /\ y.value, y.rest)
                    ELSE Returns(x.value \/ y.value, y.rest)

\* The commands, by plugin: those of Notes, Purges and Staff with the filters the
\* repository gives them, and four whose filters are combinations.
CommandFilters ==
    [get |-> NoFilter,
     save |-> Leaf("admin_only"),
     delnote |-> Leaf("admin_only"),
     del |-> Leaf("can_delete"),
     purge |-> Leaf("can_delete"),
     leavechat |-> Leaf("staff_only"),
     both |-> AndFilter(Leaf("admin_only"), Leaf("can_delete")),
     either |-> OrFilter(Leaf("staff_only"), Leaf("admin_only")),
     outsider |-> InvertFilter(Leaf("staff_only")),
     nested |-> AndFilter(InvertFilter(Leaf("staff_only")),
                          OrFilter(Leaf("can_delete"), Leaf("admin_only")))]

CommandIds == DOMAIN CommandFilters

PluginCommands ==
    [Notes |-> <<"delnote", "get", "save">>,
     Purges |-> <<"del", "purge">>,
     Staff |-> <<"leavechat">>,
     Combo |-> <<"both", "either", "nested", "outsider">>]

NoEffects == [converted |-> FALSE, invoked |-> FALSE, responded |-> FALSE, raised |-> None]

\* no command is constructed and none is being invoked
CommandIdle ==
    /\ cmd_objs = {}
    /\ flt_anjani = Uninjected.anjani
    /\ injections = Uninjected.count
    /\ inv_pc = "idle"
    /\ inv_cmd = None
    /\ inv_event = NoEvent
    /\ inv_trace = <<>>
    /\ inv_effects = NoEffects

\* ------------------------------------------------------------------ backups.py

\* the plugin classes that define on_plugin_backup
BackupPlugins == {cls \in ClassIds : "plugin_backup" \in Range(ClassDef(cls).events)}

\* what self.db.find_one gives on_plugin_backup: no document, a document, or a failure
Finds == {"nothing", "document", "error"}

\* the outcome of a task: the exception it raised or the keys of the mapping it returned
Outcome(exc, keys) == [exc |-> exc, keys |-> keys]

\* an on_plugin_backup that returns the stored document itself, with its chat_id
on_plugin_backup_unkeyed(cls, found) ==
    CASE found = "error" -> Outcome("Exception", {})
      [] found = "nothing" -> Outcome(None, {})
      [] OTHER -> Outcome(None, {"chat_id", "setting"})

\* on_plugin_backup: {} when nothing is stored, else {self.name: data}
on_plugin_backup(cls, found) ==
    CASE found = "error" -> Outcome("Exception", {})
      [] found = "nothing" -> Outcome(None, {})
      [] OTHER -> Outcome(None, {ClassDef(cls).name})

\* the lists of tasks dispatch_event can return: the listeners of "plugin_backup"
\* in the order in which their plugins were loaded
TaskLists ==
    UNION {{ts \in [1..n -> BackupPlugins] : \A i, j \in 1..n : ts[i] = ts[j] => i = j}
           : n \in 0..Cardinality(BackupPlugins)}

NoFile == [written |-> FALSE, keys |-> {}]

\* the mapping a task returned, as items: the value under a key is the document of
\* the plugin's own collection, named here by the plugin's class
Items(plugin, outcome) == {<<key, plugin>> : key \in outcome.keys}

Keys(data) == {item[1] : item \in data}

\* data.update(result) on items: the keys of result take their new values
update(data, result) == {item \in data : item[1] \notin Keys(result)} \cup result

\* data = {"chat_id": chat.id}
ChatIdOnly == {<<"chat_id", "chat">>}

\* a test that lets a payload of chat_id alone be written
NothingToSave_none(data) == Cardinality(data) < 1

\* len(data.keys()) <= 1
NothingToSave(data) == Cardinality(data) <= 1

\* cmd_backup is not running
BackupIdle ==
    /\ bk_pc = "idle"
    /\ bk_tasks = <<>>
    /\ bk_i = 0
    /\ bk_data = {}
    /\ bk_file = NoFile
    /\ bk_return = None
    /\ bk_raised = None
    /\ bk_done = <<>>
    /\ bk_payload = {}

\* ------------------------------------------------------------------ telegram_bot.py: start

\* the lifecycle events, which dispatch_event awaits before it returns
LifecycleEvents == {"load", "start", "started"}

\* the event a statement of start dispatches
DispatchedBy(pc) ==
    CASE pc = "dispatch_load" -> "load"
      [] pc = "dispatch_start" -> "start"
      [] pc = "dispatch_started" -> "started"
      [] OTHER -> None

\* a start that sets loaded before it dispatches "load"
start_next_flag_first(pc) ==
    CASE pc = "load_all_plugins" -> "set_loaded"
      [] pc = "set_loaded" -> "dispatch_load"
      [] pc = "dispatch_load" -> "client_start"
      [] pc = "client_start" -> "get_me"
      [] pc = "get_me" -> "staff"
      [] pc = "staff" -> "languages"
      [] pc = "languages" -> "dispatch_start"
      [] pc = "dispatch_start" -> "dispatch_started"
      [] OTHER -> "done"

\* the statements of start in program order
start_next(pc) ==
    CASE pc = "load_all_plugins" -> "dispatch_load"
      [] pc = "dispatch_load" -> "set_loaded"
      [] pc = "set_loaded" -> "client_start"
      [] pc = "client_start" -> "get_me"
      [] pc = "get_me" -> "staff"
      [] pc = "staff" -> "languages"
      [] pc = "languages" -> "dispatch_start"
      [] pc = "dispatch_start" -> "dispatch_started"
      [] OTHER -> "done"

\* the listeners of an event, in the order of their registration
ListenersOf(event) == IF event \in DOMAIN listeners THEN listeners[event] ELSE <<>>

\* what start fills in after the client is started: user and uid, staff, chats_languages
NoHost == [user |-> FALSE, staff |-> FALSE, languages |-> FALSE]

\* no inbound command was handled
NoInbound == [seen |-> FALSE, host |-> NoHost, started |-> FALSE]

\* start has not been called: __init__ set loaded to False
StartIdle ==
    /\ st_pc = "idle"
    /\ loaded = FALSE
    /\ st_event = None
    /\ st_pos = 0
    /\ st_done = <<>>
    /\ st_returned = <<>>
    /\ st_client = FALSE
    /\ st_host = NoHost
    /\ st_inbound = NoInbound

\* ------------------------------------------------------------------ respond

\* At most this many Context.respond calls in one invocation.
MaxResponds == 3

\* response is None; messages are numbered from 1 in the order they are sent
NoMessage == 0

MediaKeys == <<"animation", "audio", "document", "photo", "video">>

\* the keyword arguments Context.respond hands on: every media key, None by default
NoMedia == [key \in Range(MediaKeys) |-> None]

\* the media arguments of a call: none, an empty value, a photo, a document
MediaArgs ==
    {NoMedia, [NoMedia EXCEPT !["photo"] = ""], [NoMedia EXCEPT !["photo"] = "cat.jpg"],
     [NoMedia EXCEPT !["document"] = "backup.anjani"]}

\* not value, for the values of a media argument
Falsy(value) == value \in {None, ""}

\* a respond that keeps the media keys whose value is empty
drop_empty_keeps_all(media) == DOMAIN media

\* the keys left in kwargs after the empty media values are deleted from it
drop_empty(media) == {key \in DOMAIN media : ~Falsy(media[key])}

Op(op, msg) == [op |-> op, msg |-> msg]

\* reply(reference, text, **kwargs): the method of the first media key present is
\* called, reference.reply for none; the message sent is the next one
respond_reply(keys, sent) ==
    LET present == SelectSeq(MediaKeys, LAMBDA key : key \in keys)
    IN [ops |-> << Op(IF present = <<>> THEN "reply" ELSE "reply_" \o present[1], sent + 1) >>,
        returned |-> sent + 1, raised |-> None]

\* a respond that sends a new message in every mode
respond_always_replies(response, mode, media, sent) == respond_reply(drop_empty(media), sent)

\* TelegramBot.respond(msg, text, mode=, response=, **kwargs): the calls it makes on
\* the client and the message it returns
respond(response, mode, media, sent) ==
    LET keys == drop_empty(media)
    IN IF mode = "reply" \/ (response = NoMessage /\ mode = "edit")
       THEN respond_reply(keys, sent)
       ELSE IF response # NoMessage /\ mode = "edit"
            THEN IF keys # {}
                 THEN [respond_reply(keys, sent) EXCEPT !.ops = << Op("delete", response) >> \o @]
                 ELSE [ops |-> << Op("edit", response) >>, returned |-> response,
                       raised |-> None]
            ELSE [ops |-> <<>>, returned |-> NoMessage, raised |-> "ValueError"]

Modes == {"reply", "edit", "append"}

\* delete_after: not given, or a number of seconds
DeleteAfters == {None, "5"}

NoCall == [mode |-> None, kwargs |-> NoMedia, delete_after |-> None, response |-> NoMessage,
           ops |-> <<>>, returned |-> NoMessage, raised |-> None]

NoHist == [text_edit_only |-> TRUE, delete_after |-> FALSE]

\* a Context.delete that awaits the deletion whatever the delay
delete_awaits(delay, content) == [deleted |-> {content} \ {NoMessage}, scheduled |-> {}]

\* Context.delete(delay) with content the response: nothing without content; with a
\* delay the deletion is made a task of the loop, without one it is awaited
delete(delay, content) ==
    IF content = NoMessage THEN [deleted |-> {}, scheduled |-> {}]
    ELSE IF ~Falsy(delay) THEN [deleted |-> {}, scheduled |-> {content}]
    ELSE [deleted |-> {content}, scheduled |-> {}]

\* no Context exists
RespondIdle ==
    /\ rs_response = NoMessage
    /\ rs_sent = 0
    /\ rs_deleted = {}
    /\ rs_scheduled = {}
    /\ rs_calls = 0
    /\ rs_last = NoCall
    /\ rs_hist = NoHist

\* ------------------------------------------------------------------ command.py: Context

\* At most this many whitespace-separated tokens after the command token.
MaxWords == 3

\* At most this many accesses to ctx.args in one invocation.
MaxReads == 2

\* self.bot.user.username
Username == <<"b", "o", "t">>

\* the characters "/" and "@" before the command token and the bot's username
Prefix == <<"/">>

Mention == <<"@">> \o Username

CommandTokens == { <<"n", "o", "t", "e">> }

\* the tokens of a message's text: those of the specification's example, the bot's
\* username and a mention of it
Words ==
    { <<"s", "a", "v", "e">>, <<"h", "e", "l", "l", "o">>, <<"w", "o", "r", "l", "d">>,
      Username, Mention }

WordLists == UNION {[1..n -> Words] : n \in 0..MaxWords}

\* str[start:], start counted from 0
SliceFrom(str, start) == SubSeq(str, start + 1, Len(str))

\* sub in str
contains(str, sub) ==
    \E k \in 0..(Len(str) - Len(sub)) : SubSeq(str, k + 1, k + Len(sub)) = sub

\* a command message: its text, and the command list and the length the command
\* router hands to Context, the prefix, the command token and the separator
Message(token, mentioned, words) ==
    LET head == Prefix \o token \o (IF mentioned THEN Mention ELSE <<>>)
    IN [text |-> IF words = <<>> THEN head ELSE head \o <<" ">> \o join(<<" ">>, words),
        command |-> <<token>> \o words,
        cmd_len |-> Len(Prefix) + Len(token) + 1,
        token |-> token, mentioned |-> mentioned, words |-> words]

NoMsg == Message(<<>>, FALSE, <<>>)

\* a Context.__init__ whose segments leave out the invoker token
ContextInit_drops_invoker(msg) ==
    [input |-> IF contains(msg.text, Username)
               THEN SliceFrom(msg.text, msg.cmd_len + 1 + Len(Username))
               ELSE SliceFrom(msg.text, msg.cmd_len),
     segments |-> Tail(msg.command),
     invoker |-> msg.command[1]]

\* Context.__init__: input, segments and invoker
ContextInit(msg) ==
    [input |-> IF contains(msg.text, Username)
               THEN SliceFrom(msg.text, msg.cmd_len + 1 + Len(Username))
               ELSE SliceFrom(msg.text, msg.cmd_len),
     segments |-> msg.command,
     invoker |-> msg.command[1]]

NoCtx == [input |-> <<>>, segments |-> <<>>, invoker |-> <<>>]

\* the attribute args is not set on the instance
Unset == [set |-> FALSE, value |-> <<>>]

\* a _get_args that returns the arguments without storing them
get_args_unstored(ctx, stored) == [stored |-> stored, value |-> SliceFrom(ctx.segments, 1)]

\* _get_args: self.args = self.segments[1:]; return self.args
get_args(ctx, stored) ==
    [stored |-> [set |-> TRUE, value |-> SliceFrom(ctx.segments, 1)],
     value |-> SliceFrom(ctx.segments, 1)]

\* no Context exists
ContextIdle ==
    /\ cx_msg = NoMsg
    /\ cx_ctx = NoCtx
    /\ cx_args = Unset
    /\ cx_computed = 0
    /\ cx_reads = <<>>

\* ------------------------------------------------------------------ the event dispatcher's tasks

\* the events dispatched without get_tasks that are not lifecycle events: those of
\* the platform handlers and "plugin_restore"
ForgottenEvents == BuiltinEvents \cup {"plugin_restore"}

\* a dispatcher that awaits the handlers of every event
waits_always(event) == TRUE

\* whether dispatch_event awaits the handlers before it returns
waits(event) == event \in LifecycleEvents

\* no dispatch_event is running and no handler task is left
DispatchIdle ==
    /\ dp_pc = "idle"
    /\ dp_event = None
    /\ dp_pos = 0
    /\ dp_tasks = <<>>

\* ------------------------------------------------------------------ plugin_restore

\* the plugin classes that define on_plugin_restore
RestorePlugins == {cls \in ClassIds : "plugin_restore" \in Range(ClassDef(cls).events)}

\* the chat the backup is taken in, and another one
Chats == {"chat", "other"}

\* the values a field of a stored document takes
FieldValues == {"v1", "v2"}

\* the field, beside chat_id, that the plugin keeps in its document of a chat
FieldOf(cls) ==
    CASE cls = "Notes" -> "notes"
      [] cls = "SpamShield" -> "setting"
      [] OTHER -> "data"

\* find_one found no document
NoDoc == {}

\* a stored document, as its (field, value) items without _id
Doc(cls, chat, value) == {<<"chat_id", chat>>, <<FieldOf(cls), value>>}

Docs(cls) == {NoDoc} \cup {Doc(cls, "chat", value) : value \in FieldValues}

\* update_one({"chat_id": chat_id}, {"$set": fields}, upsert=True)
set_fields(doc, chat_id, fields) ==
    update(IF doc = NoDoc THEN {<<"chat_id", chat_id>>} ELSE doc, fields)

\* the aggregated mapping of cmd_backup: chat_id, and under each plugin's name the
\* document of a plugin that has one
Aggregate(store, chat_id) ==
    [chat_id |-> chat_id,
     entries |-> [name \in {ClassDef(cls).name : cls \in {c \in RestorePlugins : store[c] # NoDoc}}
                   |-> store[CHOOSE cls \in RestorePlugins : ClassDef(cls).name = name]]]

NoData == [chat_id |-> None, entries |-> <<>>]

\* an on_plugin_restore that writes nothing
on_plugin_restore_skips(cls, doc, chat_id, data) == [raised |-> None, doc |-> doc]

\* on_plugin_restore: data[self.name] of a mapping without that key is a KeyError
on_plugin_restore(cls, doc, chat_id, data) ==
    IF ClassDef(cls).name \in DOMAIN data.entries
    THEN [raised |-> None, doc |-> set_fields(doc, chat_id, data.entries[ClassDef(cls).name])]
    ELSE [raised |-> "KeyError", doc |-> doc]

\* cmd_restore is not running and no backup was taken
RestoreIdle ==
    /\ rt_pc = "idle"
    /\ rt_store = [cls \in RestorePlugins |-> NoDoc]
    /\ rt_saved = [cls \in RestorePlugins |-> NoDoc]
    /\ rt_data = NoData
    /\ rt_handlers = [cls \in RestorePlugins |-> "none"]
    /\ rt_reply = None

\* ------------------------------------------------------------------ telegram_bot.py: redact_message

\* at most this many characters in a text handed to respond
MaxText == 3

\* the characters of the texts and of the configured values
Chars == {"a", "b", "E"}

Texts == UNION {[1..n -> Chars] : n \in 0..MaxText}

\* the values of api_id, api_hash, bot_token and db_uri
Secrets == { <<"a">>, <<"a", "b">>, <<"b", "a">>, <<"b">>, <<"E">> }

ConfigKeys == {"api_id", "api_hash", "bot_token", "db_uri"}

Configs == [ConfigKeys -> Secrets]

Redacted == <<"[", "R", "E", "D", "A", "C", "T", "E", "D", "]">>

\* str.find(sub) for a sub that occurs in str, counted from 1
find(str, sub) ==
    CHOOSE k \in 1..(Len(str) - Len(sub) + 1) :
      /\ SubSeq(str, k, k + Len(sub) - 1) = sub
      /\ \A j \in 1..(k - 1) : SubSeq(str, j, j + Len(sub) - 1) # sub

RECURSIVE replace(_, _, _)
\* str.replace(old, new) for a non-empty old: the occurrences from left to right,
\* not overlapping
replace(str, old, new) ==
    IF ~contains(str, old) THEN str
    ELSE LET k == find(str, old)
         IN SubSeq(str, 1, k - 1) \o new
              \o replace(SubSeq(str, k + Len(old), Len(str)), old, new)

\* "if value in text: text = text.replace(value, '[REDACTED]')"
redact_one(text, value) ==
    IF contains(text, value) THEN replace(text, value, Redacted) ELSE text

\* a redact_message that leaves the text as it is
redact_message_keeps(config, text) == text

redact_message(config, text) ==
    redact_one(redact_one(redact_one(redact_one(text, config["api_id"]),
                                     config["api_hash"]),
                          config["bot_token"]),
               config["db_uri"])

\* Telegram's limit on the length of a message
MessageLimit == 4096

\* util.tg.truncate: a text within the limit is left as it is
truncate(text) ==
    IF Len(text) > MessageLimit THEN SubSeq(text, 1, MessageLimit) ELSE text

\* the text TelegramBot.respond hands to the client
respond_text(config, text, redact) ==
    IF text # <<>>
    THEN truncate(IF redact THEN redact_message(config, text) ELSE text)
    ELSE text

NoText == <<"-">>

\* no respond has delivered a text
RedactIdle ==
    /\ rd_config = [key \in ConfigKeys |-> <<"a">>]
    /\ rd_text = NoText
    /\ rd_redact = FALSE
    /\ rd_delivered = NoText

\* ------------------------------------------------------------------ the registry as a state machine

Registry ==
    [plugins |-> plugins, commands |-> commands, listeners |-> listeners,
     plugin_event_handlers |-> plugin_event_handlers,
     client_handlers |-> client_handlers,
     raised |-> None, constructed |-> <<>>, unloaded |-> <<>>, tasks |-> <<>>]

Becomes(R) ==
    /\ plugins' = R.plugins
    /\ commands' = R.commands
    /\ listeners' = R.listeners
    /\ plugin_event_handlers' = R.plugin_event_handlers
    /\ client_handlers' = R.client_handlers
    /\ raised' = R.raised
    /\ constructed' = R.constructed
    /\ unloaded' = R.unloaded
    /\ tasks' = R.tasks

\* the classes and comments load_plugin is called with
LoadCalls ==
    { <<"Notes", None>>, <<"NotesDup", None>>, <<"Purges", None>>, <<"Clash", None>> }

RegistryInit ==
    /\ plugins = <<>>
    /\ commands = EmptyFn
    /\ listeners = EmptyFn
    /\ plugin_event_handlers = {}
    /\ client_handlers = [e \in BuiltinEvents |-> 0]
    /\ lastOp = "init"
    /\ lastArg = None
    /\ raised = None
    /\ constructed = <<>>
    /\ unloaded = <<>>
    /\ tasks = <<>>
    /\ cycle = "fresh"

LoadPlugin ==
    \E call \in LoadCalls :
        LET R == load_plugin(Registry, call[1], call[2])
        IN /\ StaleCount(R) <= MaxStale
           /\ Becomes(R)
           /\ lastOp' = "load_plugin"
           /\ lastArg' = call[1]
           /\ cycle' = "other"
           /\ UNCHANGED <<custom_subplugins, not_registry_vars>>

UnloadPlugin ==
    \E i \in 1..Len(plugins) :
        /\ Becomes(unload_plugin(Registry, plugins[i]))
        /\ lastOp' = "unload_plugin"
        /\ lastArg' = plugins[i].cls
        /\ cycle' = "other"
        /\ UNCHANGED <<custom_subplugins, not_registry_vars>>

LoadAllPlugins ==
    LET R == load_all_plugins(Registry, custom_subplugins)
    IN /\ StaleCount(R) <= MaxStale
       /\ Becomes(R)
       /\ lastOp' = "load_all_plugins"
       /\ lastArg' = None
       /\ cycle' = CASE cycle = "fresh" -> "loaded"
                     [] cycle = "unloaded" -> "reloaded"
                     [] OTHER -> "other"
       /\ UNCHANGED <<custom_subplugins, not_registry_vars>>

UnloadAllPlugins ==
    /\ Becomes(unload_all_pluginss(Registry))
    /\ lastOp' = "unload_all_pluginss"
    /\ lastArg' = None
    /\ cycle' = IF cycle = "loaded" THEN "unloaded" ELSE "other"
    /\ UNCHANGED <<custom_subplugins, not_registry_vars>>

UpdatePluginEvents ==
    /\ Becomes(update_plugin_events(Registry))
    /\ lastOp' = "update_plugin_events"
    /\ lastArg' = None
    /\ cycle' = "other"
    /\ UNCHANGED <<custom_subplugins, not_registry_vars>>

\* the events dispatched with get_tasks
DispatchedEvents == {"plugin_backup", "message", "inline_query"}

DispatchEvent ==
    \E event \in DispatchedEvents :
        /\ Becomes(dispatch_event(Registry, event))
        /\ lastOp' = "dispatch_event"
        /\ lastArg' = event
        /\ UNCHANGED <<cycle, custom_subplugins, not_registry_vars>>

\* reload_plugin_pkg re-imports the plugin packages and touches no registry field
ReloadPluginPkg ==
    /\ Becomes(Registry)
    /\ lastOp' = "reload_plugin_pkg"
    /\ lastArg' = None
    /\ cycle' = "other"
    /\ UNCHANGED <<custom_subplugins, not_registry_vars>>

\* no command is being converted
ConverterIdle ==
    /\ sig = <<>>
    /\ conv_func = NoFunc
    /\ to_convert = <<>>
    /\ msg_entities = [none |-> TRUE, mentions |-> {}]
    /\ client_reply = None
    /\ conv_pc = "idle"
    /\ items = <<>>
    /\ idx = 0
    /\ args = <<>>
    /\ kwargs = <<>>
    /\ conv_raised = NoneV

Init ==
    /\ custom_subplugins \in CustomSets
    /\ RegistryInit
    /\ ConverterIdle
    /\ CommandIdle
    /\ BackupIdle
    /\ StartIdle
    /\ DispatchIdle
    /\ RespondIdle
    /\ ContextIdle
    /\ RestoreIdle
    /\ RedactIdle

Next ==
    \/ LoadPlugin
    \/ UnloadPlugin
    \/ LoadAllPlugins
    \/ UnloadAllPlugins
    \/ UpdatePluginEvents
    \/ DispatchEvent
    \/ ReloadPluginPkg

Spec == Init /\ [][Next]_vars

\* ------------------------------------------------------------------ parse_arguments as a state machine
\* One step per parameter of the loop: transform is awaited between them.

Ctx(reply) == [reply |-> reply, entities |-> msg_entities]

\* whether transform asks the platform client: its outcome depends on the answer
ClientAsked(param, arg) ==
    \E r1, r2 \in Replies : transform(Ctx(r1), param, arg) # transform(Ctx(r2), param, arg)

ConvInit ==
    /\ custom_subplugins = <<"ExamplePlugin">>
    /\ RegistryInit
    /\ sig \in Signatures
    /\ conv_func \in Funcs
    /\ to_convert \in TokenLists
    /\ msg_entities \in EntitySets
    /\ client_reply = None
    /\ conv_pc = "loop"
    /\ items = sig
    /\ idx = 0
    /\ args = <<>>
    /\ kwargs = <<>>
    /\ conv_raised = NoneV
    /\ CommandIdle
    /\ BackupIdle
    /\ StartIdle
    /\ DispatchIdle
    /\ RespondIdle
    /\ ContextIdle
    /\ RestoreIdle
    /\ RedactIdle

IsPositional(param) == param.kind \in {"POSITIONAL_OR_KEYWORD", "POSITIONAL_ONLY"}

\* a positional parameter with a token left for it
ConvertToken ==
    /\ conv_pc = "loop" /\ items # <<>> /\ IsPositional(Head(items))
    /\ idx < Len(to_convert)
    /\ \E reply \in Replies :
         LET param == Head(items)
             arg == to_convert[idx + 1]
             res == transform(Ctx(reply), param, arg)
         IN /\ client_reply' = IF ClientAsked(param, arg) THEN reply ELSE client_reply
            /\ IF res.raised # None
               THEN /\ conv_raised' = res.value
                    /\ conv_pc' = "raised"
                    /\ UNCHANGED <<items, idx, args>>
               ELSE /\ args' = Append(args, res.value)
                    /\ idx' = idx + 1
                    /\ items' = Tail(items)
                    /\ UNCHANGED <<conv_pc, conv_raised>>
    /\ UNCHANGED <<sig, conv_func, to_convert, msg_entities, kwargs, not_converter_vars>>

\* a positional parameter with no token left: to_convert[idx] is an IndexError
TakeDefault ==
    /\ conv_pc = "loop" /\ items # <<>> /\ IsPositional(Head(items))
    /\ idx >= Len(to_convert)
    /\ args' = Append(args, get_default(Head(items), NoneV))
    /\ idx' = idx + 1
    /\ items' = Tail(items)
    /\ UNCHANGED <<sig, conv_func, to_convert, msg_entities, client_reply, conv_pc, kwargs,
                   conv_raised, not_converter_vars>>

\* to_convert[0:]: the slice taken without idx
Rest_from_start == to_convert

\* to_convert[idx:]
Rest == SubSeq(to_convert, idx + 1, Len(to_convert))

\* a keyword-only value that is the parameter's default when no token is left
keyword_only_or_default(param, rest) ==
    IF rest = <<>> THEN get_default(param, StrV(<<>>))
    ELSE StrV(strip(join(<<" ">>, rest)))

\* " ".join(to_convert[idx:]).strip()
keyword_only(param, rest) == StrV(strip(join(<<" ">>, rest)))

\* a keyword-only parameter consumes the remaining text, and the loop breaks
ConsumeKeywordOnly ==
    /\ conv_pc = "loop" /\ items # <<>> /\ Head(items).kind = "KEYWORD_ONLY"
    /\ kwargs' = Append(kwargs, <<Head(items).name, keyword_only(Head(items), Rest)>>)
    /\ conv_pc' = "done"
    /\ UNCHANGED <<sig, conv_func, to_convert, msg_entities, client_reply, items, idx, args,
                   conv_raised, not_converter_vars>>

\* BadArgument(f"... Found '*{name}' on '{func.name}'")
BadArgument(name, command) ==
    Val("exception", 0, <<name, command>>, "BadArgument", None, None)

\* the message is formatted first: func.name of an object without that attribute
\* is an AttributeError
RejectVarPositional ==
    /\ conv_pc = "loop" /\ items # <<>> /\ Head(items).kind = "VAR_POSITIONAL"
    /\ conv_raised' = IF conv_func.kind = "Command"
                      THEN BadArgument(Head(items).name, conv_func.name)
                      ELSE ExcV("AttributeError", None, None)
    /\ conv_pc' = "raised"
    /\ UNCHANGED <<sig, conv_func, to_convert, msg_entities, client_reply, items, idx, args,
                   kwargs, not_converter_vars>>

\* no branch of the loop matches **name
SkipVarKeyword ==
    /\ conv_pc = "loop" /\ items # <<>> /\ Head(items).kind = "VAR_KEYWORD"
    /\ items' = Tail(items)
    /\ UNCHANGED <<sig, conv_func, to_convert, msg_entities, client_reply, conv_pc, idx, args,
                   kwargs, conv_raised, not_converter_vars>>

ReturnArguments ==
    /\ conv_pc = "loop" /\ items = <<>>
    /\ conv_pc' = "done"
    /\ UNCHANGED <<sig, conv_func, to_convert, msg_entities, client_reply, items, idx, args,
                   kwargs, conv_raised, not_converter_vars>>

ConvNext ==
    \/ ConvertToken
    \/ TakeDefault
    \/ ConsumeKeywordOnly
    \/ RejectVarPositional
    \/ SkipVarKeyword
    \/ ReturnArguments

SpecConv == ConvInit /\ [][ConvNext]_vars

\* ------------------------------------------------------------------ a command's invocation as a state machine
\* One step per await of on_command: each leaf of the predicate, the conversion of
\* the arguments, the handler.

\* register_commands constructs one Command per cmd_ method of the plugin
RECURSIVE ConstructAll(_, _)
ConstructAll(cmds, st) ==
    IF cmds = <<>> THEN st
    ELSE ConstructAll(Tail(cmds), CommandInit(CommandFilters[Head(cmds)], st))

ConstructCommands ==
    \E plug \in DOMAIN PluginCommands :
        LET st == ConstructAll(PluginCommands[plug],
                               [anjani |-> flt_anjani, count |-> injections])
        IN /\ inv_pc = "idle"
           /\ Range(PluginCommands[plug]) \cap cmd_objs = {}
           /\ cmd_objs' = cmd_objs \cup Range(PluginCommands[plug])
           /\ flt_anjani' = st.anjani
           /\ injections' = st.count
           /\ UNCHANGED <<inv_pc, inv_cmd, inv_event, inv_trace, inv_effects,
                          not_command_vars>>

\* a message that names a registered command arrives
OnCommand ==
    \E cmd \in cmd_objs, e \in Events :
        /\ inv_pc = "idle"
        /\ inv_cmd' = cmd
        /\ inv_event' = e
        /\ inv_trace' = <<>>
        /\ inv_effects' = NoEffects
        /\ inv_pc' = IF CommandFilters[cmd] # NoFilter THEN "filter" ELSE "convert"
        /\ UNCHANGED <<cmd_objs, flt_anjani, injections, not_command_vars>>

\* the predicate awaits the next leaf
EvalLeaf ==
    /\ inv_pc = "filter"
    /\ Run(CommandFilters[inv_cmd], inv_trace).status = "await"
    /\ LET leaf == Run(CommandFilters[inv_cmd], inv_trace).leaf
           res == LeafCall(leaf, flt_anjani, inv_event)
       IN IF res.raised # None
          THEN /\ inv_pc' = "raised"
               /\ inv_effects' = [inv_effects EXCEPT !.raised = res.raised]
               /\ UNCHANGED inv_trace
          ELSE /\ inv_trace' = Append(inv_trace, <<leaf, res.value>>)
               /\ UNCHANGED <<inv_pc, inv_effects>>
    /\ UNCHANGED <<cmd_objs, flt_anjani, injections, inv_cmd, inv_event, not_command_vars>>

\* a handler that runs whatever the predicate returned
Passes_always(value) == TRUE

\* the handler runs only if the predicate returned true
Passes(value) == value

\* the predicate returned: the invocation goes on, or ends there

FilterReturns ==
    /\ inv_pc = "filter"
    /\ Run(CommandFilters[inv_cmd], inv_trace).status = "return"
    /\ inv_pc' = IF Passes(Run(CommandFilters[inv_cmd], inv_trace).value)
                 THEN "convert" ELSE "dropped"
    /\ UNCHANGED <<cmd_objs, flt_anjani, injections, inv_cmd, inv_event, inv_trace,
                   inv_effects, not_command_vars>>

\* parse_arguments, which returns or raises
ConvertArguments ==
    /\ inv_pc = "convert"
    /\ \E exc \in {None, "ValueError"} :
         /\ inv_effects' = [inv_effects EXCEPT !.converted = TRUE, !.raised = exc]
         /\ inv_pc' = IF exc = None THEN "handler" ELSE "raised"
    /\ UNCHANGED <<cmd_objs, flt_anjani, injections, inv_cmd, inv_event, inv_trace,
                   not_command_vars>>

\* the handler runs; a text it returns is sent as the response
InvokeHandler ==
    /\ inv_pc = "handler"
    /\ \E text \in BOOLEAN :
         inv_effects' = [inv_effects EXCEPT !.invoked = TRUE, !.responded = text]
    /\ inv_pc' = "done"
    /\ UNCHANGED <<cmd_objs, flt_anjani, injections, inv_cmd, inv_event, inv_trace,
                   not_command_vars>>

\* on_command returns
InvocationEnds ==
    /\ inv_pc \in {"done", "dropped", "raised"}
    /\ inv_pc' = "idle"
    /\ inv_cmd' = None
    /\ inv_event' = NoEvent
    /\ inv_trace' = <<>>
    /\ inv_effects' = NoEffects
    /\ UNCHANGED <<cmd_objs, flt_anjani, injections, not_command_vars>>

CmdInit ==
    /\ custom_subplugins = <<"ExamplePlugin">>
    /\ RegistryInit
    /\ ConverterIdle
    /\ CommandIdle
    /\ BackupIdle
    /\ StartIdle
    /\ DispatchIdle
    /\ RespondIdle
    /\ ContextIdle
    /\ RestoreIdle
    /\ RedactIdle

CmdNext ==
    \/ ConstructCommands
    \/ OnCommand
    \/ EvalLeaf
    \/ FilterReturns
    \/ ConvertArguments
    \/ InvokeHandler
    \/ InvocationEnds

SpecCmd == CmdInit /\ [][CmdNext]_vars

\* ------------------------------------------------------------------ cmd_backup as a state machine
\* One step per iteration of the for loop: a task is awaited in each.

\* the handler is entered: it dispatches "plugin_backup" and looks at the tasks
CmdBackup ==
    /\ bk_pc \in {"idle", "returned"}
    /\ \E ts \in TaskLists, db \in [BackupPlugins -> Finds] :
        /\ bk_tasks' = [i \in 1..Len(ts) |->
                          [plugin |-> ts[i], outcome |-> on_plugin_backup(ts[i], db[ts[i]])]]
        /\ IF ts = <<>>
           THEN /\ bk_pc' = "returned"
                /\ bk_return' = "backup-null"
                /\ bk_i' = 0
           ELSE /\ bk_pc' = "loop"
                /\ bk_return' = None
                /\ bk_i' = 1
    /\ bk_data' = {"chat_id"}
    /\ bk_payload' = ChatIdOnly
    /\ bk_done' = <<>>
    /\ bk_file' = NoFile
    /\ bk_raised' = None
    /\ UNCHANGED <<custom_subplugins, not_backup_vars>>

\* a plugin's task runs to its end, in any order with the other tasks and with the
\* handler's loop
TaskDone ==
    /\ bk_pc \in {"loop", "collected", "returned"}
    /\ \E i \in 1..Len(bk_tasks) :
         /\ i \notin Range(bk_done)
         /\ bk_done' = Append(bk_done, i)
    /\ UNCHANGED <<bk_pc, bk_tasks, bk_i, bk_data, bk_file, bk_return, bk_raised, bk_payload,
                   custom_subplugins, not_backup_vars>>

\* one iteration: await task, task.result(), skip an empty mapping, data.update(result);
\* "await task" gives control back once the task is done
AwaitTask ==
    /\ bk_pc = "loop"
    /\ bk_i \in Range(bk_done)
    /\ LET outcome == bk_tasks[bk_i].outcome
       IN  IF outcome.exc # None
           THEN /\ bk_raised' = outcome.exc
                /\ bk_pc' = "returned"
                /\ UNCHANGED <<bk_i, bk_data, bk_payload>>
           ELSE /\ bk_data' = IF outcome.keys = {} THEN bk_data
                              ELSE bk_data \cup outcome.keys
                /\ bk_payload' = IF outcome.keys = {} THEN bk_payload
                                 ELSE update(bk_payload, Items(bk_tasks[bk_i].plugin, outcome))
                /\ bk_i' = bk_i + 1
                /\ bk_pc' = IF bk_i = Len(bk_tasks) THEN "collected" ELSE "loop"
                /\ UNCHANGED bk_raised
    /\ UNCHANGED <<bk_tasks, bk_file, bk_return, bk_done, custom_subplugins,
                   not_backup_vars>>

\* after the loop: answer "backup-null", or write the file, send it and return None
WriteBackup ==
    /\ bk_pc = "collected"
    /\ IF NothingToSave(bk_data)
       THEN /\ bk_return' = "backup-null"
            /\ UNCHANGED bk_file
       ELSE /\ bk_file' = [written |-> TRUE, keys |-> bk_data]
            /\ bk_return' = None
    /\ bk_pc' = "returned"
    /\ UNCHANGED <<bk_tasks, bk_i, bk_data, bk_raised, bk_done, bk_payload, custom_subplugins,
                   not_backup_vars>>

BackupInit ==
    /\ custom_subplugins = <<"ExamplePlugin">>
    /\ RegistryInit
    /\ ConverterIdle
    /\ CommandIdle
    /\ BackupIdle
    /\ StartIdle
    /\ DispatchIdle
    /\ RespondIdle
    /\ ContextIdle
    /\ RestoreIdle
    /\ RedactIdle

BackupNext ==
    \/ CmdBackup
    \/ TaskDone
    \/ AwaitTask
    \/ WriteBackup

SpecBackup == BackupInit /\ [][BackupNext]_vars

\* ------------------------------------------------------------------ start as a state machine
\* One step per statement of start and per handler dispatch_event awaits.

\* start is called: init_client, then the core command handler is added
StartCalled ==
    /\ st_pc = "idle"
    /\ st_pc' = "load_all_plugins"
    /\ UNCHANGED <<loaded, st_event, st_pos, st_done, st_returned, st_client, st_host,
                   st_inbound, registry_vars, not_start_vars>>

\* self.load_all_plugins(): an exception of a load leaves start
StartLoadsPlugins ==
    /\ st_pc = "load_all_plugins"
    /\ LET R == load_all_plugins(Registry, custom_subplugins)
       IN /\ Becomes(R)
          /\ st_pc' = IF R.raised # None THEN "raised" ELSE start_next(st_pc)
    /\ lastOp' = "load_all_plugins"
    /\ lastArg' = None
    /\ cycle' = "loaded"
    /\ UNCHANGED <<loaded, st_event, st_pos, st_done, st_returned, st_client, st_host,
                   st_inbound, custom_subplugins, not_start_vars>>

\* await self.dispatch_event(event): the dispatcher turns to the first listener
DispatchLifecycle ==
    /\ DispatchedBy(st_pc) # None
    /\ st_event = None
    /\ st_event' = DispatchedBy(st_pc)
    /\ st_pos' = 1
    /\ UNCHANGED <<st_pc, loaded, st_done, st_returned, st_client, st_host, st_inbound,
                   registry_vars, not_start_vars>>

\* the handler of the next listener is awaited: it returns or it raises, and an
\* exception either leaves dispatch_event and start or is kept in the task
HandlerCompletes ==
    /\ st_event # None
    /\ st_pos <= Len(ListenersOf(st_event))
    /\ \E outcome \in {"returned", "raised"}, propagates \in BOOLEAN :
        /\ (outcome = "returned") => ~propagates
        /\ st_done' = Append(st_done, [event |-> st_event,
                                       plugin |-> ListenersOf(st_event)[st_pos].plugin,
                                       outcome |-> outcome])
        /\ IF propagates
           THEN /\ st_pc' = "raised"
                /\ st_event' = None
                /\ st_pos' = 0
           ELSE /\ st_pos' = st_pos + 1
                /\ UNCHANGED <<st_pc, st_event>>
    /\ UNCHANGED <<loaded, st_returned, st_client, st_host, st_inbound, registry_vars,
                   not_start_vars>>

\* every listener's handler was awaited: dispatch_event returns to start
DispatchReturns ==
    /\ st_event # None
    /\ st_pos > Len(ListenersOf(st_event))
    /\ st_returned' = Append(st_returned, st_event)
    /\ st_event' = None
    /\ st_pos' = 0
    /\ st_pc' = start_next(st_pc)
    /\ UNCHANGED <<loaded, st_done, st_client, st_host, st_inbound, registry_vars,
                   not_start_vars>>

\* self.loaded = True
SetLoaded ==
    /\ st_pc = "set_loaded"
    /\ loaded' = TRUE
    /\ st_pc' = start_next(st_pc)
    /\ UNCHANGED <<st_event, st_pos, st_done, st_returned, st_client, st_host, st_inbound,
                   registry_vars, not_start_vars>>

\* await self.client.start(): an AttributeError of the client leaves start; from
\* here on the client delivers inbound events to the handlers added to it
ClientStarts ==
    /\ st_pc = "client_start"
    /\ \E ok \in BOOLEAN :
        /\ st_pc' = IF ok THEN start_next(st_pc) ELSE "raised"
        /\ st_client' = ok
    /\ UNCHANGED <<loaded, st_event, st_pos, st_done, st_returned, st_host, st_inbound,
                   registry_vars, not_start_vars>>

\* user = await self.client.get_me(): a TypeError leaves start, else user and uid
GetMe ==
    /\ st_pc = "get_me"
    /\ \E ok \in BOOLEAN :
        /\ st_pc' = IF ok THEN start_next(st_pc) ELSE "raised"
        /\ st_host' = [st_host EXCEPT !.user = ok]
    /\ UNCHANGED <<loaded, st_event, st_pos, st_done, st_returned, st_client, st_inbound,
                   registry_vars, not_start_vars>>

\* self.staff.add(self.owner) and the staff read from the database
UpdateStaff ==
    /\ st_pc = "staff"
    /\ st_host' = [st_host EXCEPT !.staff = TRUE]
    /\ st_pc' = start_next(st_pc)
    /\ UNCHANGED <<loaded, st_event, st_pos, st_done, st_returned, st_client, st_inbound,
                   registry_vars, not_start_vars>>

\* chats_languages read from the database, languages from the language files
UpdateLanguages ==
    /\ st_pc = "languages"
    /\ st_host' = [st_host EXCEPT !.languages = TRUE]
    /\ st_pc' = start_next(st_pc)
    /\ UNCHANGED <<loaded, st_event, st_pos, st_done, st_returned, st_client, st_inbound,
                   registry_vars, not_start_vars>>

\* the started client hands an inbound message to on_command, added to it before
\* the plugins were loaded; start is suspended at one of its awaits meanwhile
InboundCommand ==
    /\ st_client
    /\ st_inbound' = [seen |-> TRUE, host |-> st_host,
                      started |-> "start" \in Range(st_returned)]
    /\ UNCHANGED <<st_pc, loaded, st_event, st_pos, st_done, st_returned, st_client,
                   st_host, registry_vars, not_start_vars>>

StartInit ==
    /\ custom_subplugins \in CustomSets
    /\ RegistryInit
    /\ ConverterIdle
    /\ CommandIdle
    /\ BackupIdle
    /\ StartIdle
    /\ DispatchIdle
    /\ RespondIdle
    /\ ContextIdle
    /\ RestoreIdle
    /\ RedactIdle

StartNext ==
    \/ StartCalled
    \/ StartLoadsPlugins
    \/ DispatchLifecycle
    \/ HandlerCompletes
    \/ DispatchReturns
    \/ SetLoaded
    \/ ClientStarts
    \/ GetMe
    \/ UpdateStaff
    \/ UpdateLanguages
    \/ InboundCommand

SpecStart == StartInit /\ [][StartNext]_vars

\* ------------------------------------------------------------------ dispatch_event as a state machine
\* One step per handler task created; the tasks run on the event loop on their own.

\* the registry as load_all_plugins leaves it on a fresh bot
LoadedRegistry ==
    LET R == load_all_plugins(EmptyRegistry, custom_subplugins)
    IN /\ plugins = R.plugins
       /\ commands = R.commands
       /\ listeners = R.listeners
       /\ plugin_event_handlers = R.plugin_event_handlers
       /\ client_handlers = R.client_handlers
       /\ raised = R.raised
       /\ constructed = R.constructed
       /\ unloaded = R.unloaded
       /\ tasks = R.tasks
       /\ lastOp = "load_all_plugins"
       /\ lastArg = None
       /\ cycle = "loaded"

\* await self.dispatch_event(name, event) of an event handler or of cmd_restore; the
\* tasks of an earlier dispatch that are still pending stay on the loop
DispatchCalled ==
    /\ dp_pc \in {"idle", "returned"}
    /\ \E event \in ForgottenEvents : dp_event' = event
    /\ dp_pc' = "scheduling"
    /\ dp_pos' = 1
    /\ dp_tasks' = <<>>
    /\ UNCHANGED <<custom_subplugins, not_dispatch_vars>>

\* the handler of the next listener is made a task of the event loop
ScheduleHandler ==
    /\ dp_pc = "scheduling"
    /\ dp_pos <= Len(ListenersOf(dp_event))
    /\ dp_tasks' = Append(dp_tasks, [plugin |-> ListenersOf(dp_event)[dp_pos].plugin,
                                     state |-> "pending"])
    /\ dp_pos' = dp_pos + 1
    /\ UNCHANGED <<dp_pc, dp_event, custom_subplugins, not_dispatch_vars>>

\* every handler is scheduled: dispatch_event returns, after the handlers' completion
\* only for an event it awaits
DispatchDone ==
    /\ dp_pc = "scheduling"
    /\ dp_pos > Len(ListenersOf(dp_event))
    /\ waits(dp_event) => \A i \in 1..Len(dp_tasks) : dp_tasks[i].state # "pending"
    /\ dp_pc' = "returned"
    /\ UNCHANGED <<dp_event, dp_pos, dp_tasks, custom_subplugins, not_dispatch_vars>>

\* a handler task completes, returning or raising; a task may also never complete
TaskCompletes ==
    /\ \E i \in 1..Len(dp_tasks), outcome \in {"done", "raised"} :
        /\ dp_tasks[i].state = "pending"
        /\ dp_tasks' = [dp_tasks EXCEPT ![i].state = outcome]
    /\ UNCHANGED <<dp_pc, dp_event, dp_pos, custom_subplugins, not_dispatch_vars>>

DispatchInit ==
    /\ custom_subplugins \in CustomSets
    /\ LoadedRegistry
    /\ ConverterIdle
    /\ CommandIdle
    /\ BackupIdle
    /\ StartIdle
    /\ DispatchIdle
    /\ RespondIdle
    /\ ContextIdle
    /\ RestoreIdle
    /\ RedactIdle

DispatchNext ==
    \/ DispatchCalled
    \/ ScheduleHandler
    \/ DispatchDone
    \/ TaskCompletes

SpecDispatch == DispatchInit /\ [][DispatchNext]_vars

\* the dispatcher's own steps are taken; no handler is assumed to complete
SpecDispatchFair ==
    SpecDispatch /\ WF_vars(ScheduleHandler) /\ WF_vars(DispatchDone)

\* ------------------------------------------------------------------ Context.respond as a state machine

\* Context.__init__ of the next invocation: response is None
NewContext ==
    /\ rs_calls > 0
    /\ rs_response' = NoMessage
    /\ rs_sent' = 0
    /\ rs_deleted' = {}
    /\ rs_scheduled' = {}
    /\ rs_calls' = 0
    /\ rs_last' = NoCall
    /\ rs_hist' = NoHist
    /\ UNCHANGED <<custom_subplugins, not_respond_vars, other_vars>>

\* Context.respond(text, mode=, delete_after=, animation=, ..., video=): response is
\* what TelegramBot.respond returned, or None once delete_after has deleted it
ContextRespond ==
    /\ rs_calls < MaxResponds
    /\ \E mode \in Modes, media \in MediaArgs, delete_after \in DeleteAfters :
        LET r == respond(rs_response, mode, media, rs_sent)
            sends == {i \in 1..Len(r.ops) : r.ops[i].op \notin {"delete", "edit"}}
            deletes == {r.ops[i].msg : i \in {j \in 1..Len(r.ops) : r.ops[j].op = "delete"}}
        IN /\ rs_last' = [mode |-> mode, kwargs |-> media, delete_after |-> delete_after,
                          response |-> rs_response, ops |-> r.ops, returned |-> r.returned,
                          raised |-> r.raised]
           /\ rs_sent' = rs_sent + Cardinality(sends)
           /\ rs_response' = IF r.raised # None THEN rs_response
                             ELSE IF Falsy(delete_after) THEN r.returned
                             ELSE NoMessage
           /\ LET d == IF r.raised = None /\ ~Falsy(delete_after)
                       THEN delete(delete_after, r.returned)
                       ELSE delete(delete_after, NoMessage)
              IN /\ rs_deleted' = rs_deleted \cup deletes \cup d.deleted
                 /\ rs_scheduled' = rs_scheduled \cup d.scheduled
           /\ rs_hist' = [text_edit_only |-> rs_hist.text_edit_only /\ mode = "edit"
                                              /\ drop_empty(media) = {},
                          delete_after |-> rs_hist.delete_after \/ ~Falsy(delete_after)]
    /\ rs_calls' = rs_calls + 1
    /\ UNCHANGED <<custom_subplugins, not_respond_vars, other_vars>>

\* the background task of a delete_after: asyncio.sleep(delay), then content.delete
DeleteTaskRuns ==
    /\ \E msg \in rs_scheduled :
         /\ rs_scheduled' = rs_scheduled \ {msg}
         /\ rs_deleted' = rs_deleted \cup {msg}
    /\ UNCHANGED <<rs_response, rs_sent, rs_calls, rs_last, rs_hist, custom_subplugins,
                   not_respond_vars>>

RespondInit ==
    /\ custom_subplugins = <<"ExamplePlugin">>
    /\ RegistryInit
    /\ ConverterIdle
    /\ CommandIdle
    /\ BackupIdle
    /\ StartIdle
    /\ DispatchIdle
    /\ RespondIdle
    /\ ContextIdle
    /\ RestoreIdle
    /\ RedactIdle

RespondNext ==
    \/ NewContext
    \/ ContextRespond
    \/ DeleteTaskRuns

SpecRespond == RespondInit /\ [][RespondNext]_vars

\* ------------------------------------------------------------------ Context as a state machine

\* the command router builds the Context of a command message
ContextCreated ==
    /\ \E token \in CommandTokens, mentioned \in BOOLEAN, words \in WordLists :
        LET msg == Message(token, mentioned, words)
        IN /\ cx_msg' = msg
           /\ cx_ctx' = ContextInit(msg)
    /\ cx_args' = Unset
    /\ cx_computed' = 0
    /\ cx_reads' = <<>>
    /\ UNCHANGED <<custom_subplugins, not_context_vars>>

\* ctx.args is read: __getattr__ and _get_args run only when the attribute is not set
ReadArgs ==
    /\ cx_ctx # NoCtx
    /\ Len(cx_reads) < MaxReads
    /\ IF cx_args.set
       THEN /\ cx_reads' = Append(cx_reads, cx_args.value)
            /\ UNCHANGED <<cx_args, cx_computed>>
       ELSE LET r == get_args(cx_ctx, cx_args)
            IN /\ cx_args' = r.stored
               /\ cx_computed' = cx_computed + 1
               /\ cx_reads' = Append(cx_reads, r.value)
    /\ UNCHANGED <<cx_msg, cx_ctx, custom_subplugins, not_context_vars>>

CtxInit ==
    /\ custom_subplugins = <<"ExamplePlugin">>
    /\ RegistryInit
    /\ ConverterIdle
    /\ CommandIdle
    /\ BackupIdle
    /\ StartIdle
    /\ DispatchIdle
    /\ RespondIdle
    /\ ContextIdle
    /\ RestoreIdle
    /\ RedactIdle

CtxNext ==
    \/ ContextCreated
    \/ ReadArgs

SpecCtx == CtxInit /\ [][CtxNext]_vars

\* ------------------------------------------------------------------ cmd_restore as a state machine
\* One step per await of cmd_restore; the handlers of "plugin_restore" are tasks
\* of the event loop.

\* cmd_backup aggregates the documents of the chat; a payload of chat_id alone is
\* not written to a file
TakeBackup ==
    /\ rt_pc = "idle"
    /\ \E cls \in RestorePlugins : rt_store[cls] # NoDoc
    /\ rt_data' = Aggregate(rt_store, "chat")
    /\ rt_saved' = rt_store
    /\ rt_pc' = "backed_up"
    /\ UNCHANGED <<rt_store, rt_handlers, rt_reply, custom_subplugins, not_restore_vars>>

\* between backup and restore a plugin's command writes the plugin's document:
\* update_one with $set and upsert
StoreWrite ==
    /\ rt_pc = "backed_up"
    /\ \E cls \in RestorePlugins, value \in FieldValues :
         rt_store' = [rt_store EXCEPT
                        ![cls] = set_fields(@, "chat", {<<FieldOf(cls), value>>})]
    /\ UNCHANGED <<rt_pc, rt_saved, rt_data, rt_handlers, rt_reply, custom_subplugins,
                   not_restore_vars>>

\* cmd_restore up to the return of dispatch_event: the file is read, its chat_id
\* compared, and the handlers of "plugin_restore" are scheduled
CmdRestore ==
    /\ rt_pc = "backed_up"
    /\ \E chat \in Chats :
         IF rt_data.chat_id # chat
         THEN /\ rt_reply' = "backup-id-invalid"
              /\ rt_pc' = "returned"
              /\ UNCHANGED rt_handlers
         ELSE IF DOMAIN rt_data.entries = {}
         THEN /\ rt_reply' = "backup-data-null"
              /\ rt_pc' = "returned"
              /\ UNCHANGED rt_handlers
         ELSE /\ rt_reply' = "restore-progress"
              /\ rt_pc' = "dispatched"
              /\ rt_handlers' = [cls \in RestorePlugins |-> "pending"]
    /\ UNCHANGED <<rt_store, rt_saved, rt_data, custom_subplugins, not_restore_vars>>

\* the task of one plugin's on_plugin_restore runs
RestoreHandler ==
    /\ \E cls \in RestorePlugins :
         /\ rt_handlers[cls] = "pending"
         /\ LET res == on_plugin_restore(cls, rt_store[cls], rt_data.chat_id, rt_data)
            IN /\ rt_store' = [rt_store EXCEPT ![cls] = res.doc]
               /\ rt_handlers' = [rt_handlers EXCEPT
                                    ![cls] = IF res.raised = None THEN "done" ELSE "raised"]
    /\ UNCHANGED <<rt_pc, rt_saved, rt_data, rt_reply, custom_subplugins, not_restore_vars>>

\* dispatch_event has returned, after the handlers only if it awaits them:
\* ctx.respond("backup-done")
RespondDone ==
    /\ rt_pc = "dispatched"
    /\ waits("plugin_restore") => \A cls \in RestorePlugins : rt_handlers[cls] # "pending"
    /\ rt_reply' = "backup-done"
    /\ rt_pc' = "returned"
    /\ UNCHANGED <<rt_store, rt_saved, rt_data, rt_handlers, custom_subplugins,
                   not_restore_vars>>

RestoreInit ==
    /\ custom_subplugins = <<"ExamplePlugin">>
    /\ RegistryInit
    /\ ConverterIdle
    /\ CommandIdle
    /\ BackupIdle
    /\ StartIdle
    /\ DispatchIdle
    /\ RespondIdle
    /\ ContextIdle
    /\ RedactIdle
    /\ rt_pc = "idle"
    /\ rt_store \in [RestorePlugins -> UNION {Docs(cls) : cls \in RestorePlugins}]
    /\ \A cls \in RestorePlugins : rt_store[cls] \in Docs(cls)
    /\ rt_saved = [cls \in RestorePlugins |-> NoDoc]
    /\ rt_data = NoData
    /\ rt_handlers = [cls \in RestorePlugins |-> "none"]
    /\ rt_reply = None

RestoreNext ==
    \/ TakeBackup
    \/ StoreWrite
    \/ CmdRestore
    \/ RestoreHandler
    \/ RespondDone

SpecRestore == RestoreInit /\ [][RestoreNext]_vars

\* ------------------------------------------------------------------ the text of a response as a state machine

\* respond(msg, text, redact=...) delivers a text; the text delivered depends on
\* the arguments of the call and on the config alone, so a run makes one call
RespondWithText ==
    /\ rd_delivered = NoText
    /\ \E text \in Texts, redact \in BOOLEAN :
         /\ rd_text' = text
         /\ rd_redact' = redact
         /\ rd_delivered' = respond_text(rd_config, text, redact)
    /\ UNCHANGED <<rd_config, custom_subplugins, not_redact_vars>>

RedactInit ==
    /\ custom_subplugins = <<"ExamplePlugin">>
    /\ RegistryInit
    /\ ConverterIdle
    /\ CommandIdle
    /\ BackupIdle
    /\ StartIdle
    /\ DispatchIdle
    /\ RespondIdle
    /\ ContextIdle
    /\ RestoreIdle
    /\ rd_config \in Configs
    /\ rd_text = NoText
    /\ rd_redact = FALSE
    /\ rd_delivered = NoText

RedactNext == RespondWithText

SpecRedact == RedactInit /\ [][RedactNext]_vars

\* ------------------------------------------------------------------ the registry's claims

DeclaredTokens(func) == {func.name} \cup Range(func.aliases)

ClassTokens(cls) == UNION {DeclaredTokens(f) : f \in Range(ClassDef(cls).cmds)}

NameLoaded(cls) == \E i \in 1..Len(plugins) : plugins[i].name = ClassDef(cls).name

TablesUnchanged ==
    /\ commands' = commands
    /\ listeners' = listeners
    /\ plugin_event_handlers' = plugin_event_handlers
    /\ client_handlers' = client_handlers

\* C1: load_plugin of a class whose declared name is already loaded fails with
\* ExistingPluginError; the registry keeps the first instance only, and the command
\* table and the listener table are as they were before the call.
C1_DuplicateLoadFails ==
    [][(lastOp' = "load_plugin" /\ NameLoaded(lastArg'))
         => /\ raised' = "ExistingPluginError"
            /\ plugins' = plugins
            /\ constructed' = <<>>
            /\ TablesUnchanged]_vars

C1_Witness ==
    /\ lastOp = "load_plugin"
    /\ lastArg = "NotesDup"
    /\ raised = "ExistingPluginError"
    /\ \E i \in 1..Len(plugins) : plugins[i].cls = "Notes"
    /\ "clear" \in DOMAIN commands

\* every token a loaded plugin declares resolves to that plugin's Command
TokensOwned ==
    \A i \in 1..Len(plugins) :
      \A f \in Range(ClassDef(plugins[i].cls).cmds) :
        \A t \in DeclaredTokens(f) :
          /\ t \in DOMAIN commands
          /\ commands[t].plugin = plugins[i].cls
          /\ commands[t].name = f.name

\* C2: each token resolves to at most one Command, that of the loaded plugin which
\* declares it; loading a plugin one of whose tokens is already bound is an error
\* (ExistingCommandError) that leaves every existing binding as it was.
C2_TokensResolveToOneCommand ==
    [][/\ TokensOwned'
       /\ (lastOp' = "load_plugin" /\ ~NameLoaded(lastArg')
             /\ ClassTokens(lastArg') \cap DOMAIN commands # {})
            => /\ raised' = "ExistingCommandError"
               /\ \A t \in DOMAIN commands :
                    t \in DOMAIN commands' /\ commands'[t] = commands[t]
               /\ plugins' = plugins]_vars

C2_Witness ==
    /\ lastOp = "load_plugin"
    /\ lastArg = "Clash"
    /\ raised = "ExistingCommandError"
    /\ "clear" \in DOMAIN commands
    /\ commands["clear"].plugin = "Notes"
    /\ "clash" \notin DOMAIN commands

\* C3: every alias of a loaded command resolves to the same Command, hence the same
\* handler behind the same predicate, as the command's primary name.
C3_AliasResolvesAsName ==
    \A i \in 1..Len(plugins) :
      \A f \in Range(ClassDef(plugins[i].cls).cmds) :
        \A a \in Range(f.aliases) :
          /\ f.name \in DOMAIN commands
          /\ a \in DOMAIN commands
          /\ commands[a] = commands[f.name]
          /\ commands[a].func = <<plugins[i].cls, f.name>>
          /\ commands[a].filters = f.filters

C3_Witness ==
    /\ \E i \in 1..Len(plugins) : plugins[i].cls = "Notes"
    /\ "clear" \in DOMAIN commands
    /\ commands["clear"].func = <<"Notes", "delnote">>
    /\ commands["clear"].filters = "admin_only"

OwnedBy(l, cls) == l.plugin = cls /\ ~l.stale

\* the listener list ls without the entries of the instance of class cls
Without(ls, cls) == SelectSeq(ls, LAMBDA l : ~OwnedBy(l, cls))

\* C4: after unload_plugin(p) no command token and no listener entry is owned by p,
\* p is absent from the registry, and the commands and listeners of the other
\* plugins are unchanged.
C4_UnloadRemovesOnlyItsOwn ==
    [][lastOp' = "unload_plugin"
         => /\ \A t \in DOMAIN commands' : commands'[t].plugin # lastArg'
            /\ \A e \in DOMAIN listeners' :
                 \A k \in 1..Len(listeners'[e]) : ~OwnedBy(listeners'[e][k], lastArg')
            /\ \A i \in 1..Len(plugins') : plugins'[i].cls # lastArg'
            /\ plugins' = SelectSeq(plugins, LAMBDA p : p.cls # lastArg')
            /\ DOMAIN commands' = {t \in DOMAIN commands : commands[t].plugin # lastArg'}
            /\ \A t \in DOMAIN commands' : commands'[t] = commands[t]
            /\ DOMAIN listeners' =
                 {e \in DOMAIN listeners : Without(listeners[e], lastArg') # <<>>}
            /\ \A e \in DOMAIN listeners' :
                 listeners'[e] = Without(listeners[e], lastArg')
            /\ raised' = None]_vars

C4_Witness ==
    /\ lastOp = "unload_plugin"
    /\ lastArg = "Notes"
    /\ \E i \in 1..Len(plugins) : plugins[i].cls = "SpamShield"
    /\ "message" \in DOMAIN listeners
    /\ "clear" \notin DOMAIN commands
    /\ "spamshield" \in DOMAIN commands

FreshLoadAll == load_all_plugins(EmptyRegistry, custom_subplugins)

\* C5: load-all, unload-all, load-all leaves the registry, the command table, the
\* listener table and the installed platform handlers as a fresh load-all does.
C5_ReloadCycleIsFreshLoad ==
    cycle = "reloaded"
      => /\ plugins = FreshLoadAll.plugins
         /\ commands = FreshLoadAll.commands
         /\ listeners = FreshLoadAll.listeners
         /\ plugin_event_handlers = FreshLoadAll.plugin_event_handlers
         /\ client_handlers = FreshLoadAll.client_handlers
         /\ raised = None

C5_Witness ==
    /\ cycle = "reloaded"
    /\ Len(plugins) >= 3
    /\ "message" \in plugin_event_handlers
    /\ client_handlers["message"] = 1

\* C6: unload-all unloads every plugin that was loaded when it started exactly once,
\* in the order of the snapshot, raises nothing and ends with an empty registry.
C6_UnloadAllOverSnapshot ==
    [][lastOp' = "unload_all_pluginss"
         => /\ unloaded' = [i \in 1..Len(plugins) |-> plugins[i].cls]
            /\ raised' = None
            /\ plugins' = <<>>]_vars

C6_Witness ==
    /\ lastOp = "unload_all_pluginss"
    /\ Len(unloaded) >= 3
    /\ plugins = <<>>
    /\ raised = None

Enabled(subplugins) == SelectSeq(subplugins, LAMBDA c : ~ClassDef(c).disabled)

ExpectedLoadAll ==
    [i \in 1..Len(Enabled(builtin_subplugins)) |->
        Plugin(Enabled(builtin_subplugins)[i], None)]
    \o [i \in 1..Len(Enabled(custom_subplugins)) |->
        Plugin(Enabled(custom_subplugins)[i], "custom")]

\* C7: load_all_plugins instantiates no disabled class; what it adds to the registry
\* is built-in plugins without comment followed by custom plugins tagged "custom";
\* from an empty registry it loads every non-disabled class of both sets.
C7_LoadAllOrderAndTags ==
    [][lastOp' = "load_all_plugins"
         => /\ \A c \in Range(constructed') : ~ClassDef(c).disabled
            /\ Len(plugins') >= Len(plugins)
            /\ SubSeq(plugins', 1, Len(plugins)) = plugins
            /\ \A i \in (Len(plugins) + 1)..Len(plugins') :
                 /\ ~ClassDef(plugins'[i].cls).disabled
                 /\ plugins'[i].cls \in Range(builtin_subplugins)
                      => plugins'[i].comment = None
                 /\ plugins'[i].cls \in Range(custom_subplugins)
                      => plugins'[i].comment = "custom"
                 /\ plugins'[i].cls \in Range(builtin_subplugins) \cup Range(custom_subplugins)
                 /\ \A j \in (Len(plugins) + 1)..Len(plugins') :
                      (j < i /\ plugins'[j].cls \in Range(custom_subplugins))
                        => plugins'[i].cls \in Range(custom_subplugins)
            /\ plugins = <<>> => (plugins' = ExpectedLoadAll /\ raised' = None)]_vars

C7_Witness ==
    /\ lastOp = "load_all_plugins"
    /\ raised = None
    /\ Len(plugins) = 4
    /\ plugins[4] = [name |-> "Extra", cls |-> "ExtraPlugin", comment |-> "custom"]
    /\ plugins[1].comment = None
    /\ \A i \in 1..Len(plugins) : plugins[i].cls # "ExamplePlugin"

\* ------------------------------------------------------------------ the converter's claims

Finished == conv_pc \in {"done", "raised"}

IntDefault5 == << Positional("n", Plain("int"), IntV(5)) >>

\* C8: for a parameter n: int = 5, no token gives 5, a token int() accepts gives
\* that integer, and a token int() rejects gives the default 5 without an error.
C8_IntFallsBackToDefault ==
    (sig = IntDefault5 /\ Finished)
      => /\ conv_pc = "done"
         /\ args = << IF to_convert = <<>> THEN IntV(5)
                     ELSE IF int(to_convert[1]).raised = None
                          THEN int(to_convert[1]).value
                          ELSE IntV(5) >>

IsBool(param) ==
    /\ IsPositional(param)
    /\ param.annotation \in {Plain("bool"), Optional("bool")}

\* the k-th parameter is a bool converted from the k-th token
BoolConverted(k) ==
    /\ k <= Len(args) /\ k <= Len(to_convert) /\ k <= Len(sig)
    /\ IsBool(sig[k])
    /\ \A j \in 1..k : IsPositional(sig[j])

\* the value a bool parameter receives for a token, given the value it receives
\* for a token outside the vocabulary when it declares no default
BoolValue(param, token, undeclared) ==
    IF lower(token) \in BoolTrue THEN BoolV(TRUE)
    ELSE IF lower(token) \in BoolFalse THEN BoolV(FALSE)
    ELSE IF param.default # Empty THEN param.default
    ELSE undeclared

NoBoolRaises ==
    conv_pc = "raised" => ~(items # <<>> /\ IsBool(Head(items)))

OfConverterKind(param) ==
    /\ IsPositional(param)
    /\ param.annotation # NoAnnotation
    /\ param.annotation.args[1] # "NoneType"

C10_FailureGivesDefaultOrConversionError ==
    /\ (conv_pc = "raised" /\ items # <<>> /\ OfConverterKind(Head(items)))
         => /\ Head(items).default = Empty
            /\ conv_raised.exc = "ConversionError"
            /\ conv_raised.converter # None
            /\ conv_raised.cause # None
    /\ \A k \in 1..Len(args) :
         (/\ k <= Len(sig) /\ k <= Len(to_convert)
          /\ OfConverterKind(sig[k]) /\ args[k].t = "exception")
           => /\ sig[k].default = Empty
              /\ args[k].exc = "ConversionError"
              /\ args[k].converter # None
              /\ args[k].cause # None

Positionals(params) == SelectSeq(params, IsPositional)

\* C11: a positional parameter for which no token is left receives its declared
\* default, or None when it declares none, and that raises nothing; when
\* parse_arguments returns, args holds exactly one value per declared positional
\* parameter, whatever the number of tokens.
C11_MissingPositionalsTakeDefault ==
    /\ (conv_pc = "raised" /\ items # <<>> /\ IsPositional(Head(items)))
         => idx < Len(to_convert)
    /\ conv_pc = "done"
         => /\ Len(args) = Len(Positionals(sig))
            /\ \A k \in 1..Len(args) :
                 k > Len(to_convert)
                   => args[k] = IF Positionals(sig)[k].default # Empty
                                THEN Positionals(sig)[k].default
                                ELSE NoneV

C11_Witness ==
    /\ conv_pc = "done"
    /\ sig = << Positional("n", Plain("int"), IntV(5)),
                Positional("flag", Plain("bool"), BoolV(TRUE)) >>
    /\ to_convert = << <<"7">> >>
    /\ args = << IntV(7), BoolV(TRUE) >>

\* the position in params of the first keyword-only parameter, 0 when there is none
FirstKeywordOnly(params) ==
    IF \E p \in 1..Len(params) : params[p].kind = "KEYWORD_ONLY"
    THEN CHOOSE p \in 1..Len(params) :
           /\ params[p].kind = "KEYWORD_ONLY"
           /\ \A q \in 1..(p - 1) : params[q].kind # "KEYWORD_ONLY"
    ELSE 0

\* C12: a keyword-only parameter receives the tokens the positional parameters
\* before it did not consume, joined with single spaces as one string, and ends
\* the consumption: no later parameter is converted, and every token is either
\* the source of one positional value or part of that string, in order.
C12_KeywordOnlyTakesTheRest ==
    LET p == FirstKeywordOnly(sig)
    IN (conv_pc = "done" /\ p > 0 /\ \A q \in 1..(p - 1) : IsPositional(sig[q]))
         => /\ Len(args) = p - 1
            /\ kwargs = << <<sig[p].name,
                             StrV(join(<<" ">>, SubSeq(to_convert, p, Len(to_convert))))>> >>
            /\ items = SubSeq(sig, p, Len(sig))
            /\ \A k \in 1..Len(args) :
                 (k <= Len(to_convert) /\ sig[k].annotation = Plain("str"))
                   => args[k] = StrV(to_convert[k])

C12_Witness ==
    /\ conv_pc = "done"
    /\ sig = << Positional("name", Plain("str"), Empty), KeywordOnly("text", Empty) >>
    /\ to_convert = << <<"a", "b", "c">>, <<"7">> >>
    /\ args = << StrV(<<"a", "b", "c">>) >>
    /\ kwargs = << <<"text", StrV(<<"7">>)>> >>

HasVarPositional(params) == \E p \in 1..Len(params) : params[p].kind = "VAR_POSITIONAL"

\* C13: the invocation of a handler that declares *name ends in BadArgument, which
\* names that parameter and the command, and never in the handler being called
\* with converted arguments.
C13_VarPositionalRejected ==
    (HasVarPositional(sig) /\ Finished)
      => /\ conv_pc = "raised"
         /\ conv_raised.exc = "BadArgument"
         /\ \E p \in 1..Len(sig) :
              /\ sig[p].kind = "VAR_POSITIONAL"
              /\ conv_raised.s[1] = sig[p].name
         /\ conv_raised.s[2] = conv_func.name

\* ------------------------------------------------------------------ the claims on filters and invocation

RECURSIVE LeavesOf(_)
\* the leaves of a filter, from left to right
LeavesOf(flt) ==
    IF flt.op = "NONE" THEN <<>>
    ELSE IF flt.op = "LEAF" THEN <<flt.leaf>>
    ELSE IF flt.op = "NOT" THEN LeavesOf(flt.base)
    ELSE LeavesOf(flt.base) \o LeavesOf(flt.other)

RECURSIVE SubFilters(_)
SubFilters(flt) ==
    IF flt.op \in {"NONE", "LEAF"} THEN {flt}
    ELSE IF flt.op = "NOT" THEN {flt} \cup SubFilters(flt.base)
    ELSE {flt} \cup SubFilters(flt.base) \cup SubFilters(flt.other)

RECURSIVE Truth(_, _)
\* the truth value of a filter for an event, every leaf taken at its own result
Truth(flt, e) ==
    CASE flt.op = "LEAF" -> LeafCall(flt.leaf, flt_anjani, e).value
      [] flt.op = "NOT" -> ~Truth(flt.base, e)
      [] flt.op = "AND" -> Truth(flt.base, e) /\ Truth(flt.other, e)
      [] flt.op = "OR" -> Truth(flt.base, e) \/ Truth(flt.other, e)

Position(leaf, leaves) == CHOOSE i \in 1..Len(leaves) : leaves[i] = leaf

Evaluated == {inv_trace[i][1] : i \in 1..Len(inv_trace)}

Invoking == inv_cmd # None /\ CommandFilters[inv_cmd] # NoFilter

\* the trace of an evaluation follows the tree from left to right and stops where
\* an AND or an OR is decided; the predicate's result is that of its tree
OrderedShortCircuit ==
    Invoking
      => LET flt == CommandFilters[inv_cmd]
             leaves == LeavesOf(flt)
         IN /\ \A i \in 1..Len(inv_trace) :
                 /\ inv_trace[i][1] \in Range(leaves)
                 /\ inv_trace[i][2] = LeafCall(inv_trace[i][1], flt_anjani, inv_event).value
                 /\ \A j \in 1..(i - 1) :
                      Position(inv_trace[j][1], leaves) < Position(inv_trace[i][1], leaves)
            /\ \A n \in SubFilters(flt) :
                 /\ (n.op = "AND" /\ ~Truth(n.base, inv_event))
                      => Range(LeavesOf(n.other)) \cap Evaluated = {}
                 /\ (n.op = "OR" /\ Truth(n.base, inv_event))
                      => Range(LeavesOf(n.other)) \cap Evaluated = {}
            /\ inv_pc \in {"convert", "handler", "done"} => Truth(flt, inv_event)
            /\ inv_pc = "dropped" => ~Truth(flt, inv_event)

\* C14: the leaves of a predicate are evaluated one at a time, from left to right;
\* no leaf of the right child of an AND is evaluated when its left child is false,
\* none of the right child of an OR when its left child is true; the predicate's
\* result is that of its tree, NOT negating its child.
C14_LeftToRightShortCircuit ==
    [][Len(inv_trace') <= Len(inv_trace) + 1 /\ OrderedShortCircuit']_vars

C14_Witness ==
    /\ inv_pc = "dropped"
    /\ inv_cmd = "both"
    /\ inv_trace = << <<"admin_only", FALSE>> >>
    /\ can_delete(inv_event).value

\* C15: when the predicate of the invoked command is false for the event, the
\* arguments are not converted, the handler is not invoked, nothing is raised and
\* nothing is sent; so it is for del in a private chat.
C15_FalsePredicateDropsSilently ==
    /\ (Invoking /\ ~Truth(CommandFilters[inv_cmd], inv_event))
         => /\ inv_effects = NoEffects
            /\ inv_pc \in {"filter", "dropped"}
    /\ (inv_cmd = "del" /\ inv_event.private)
         => /\ inv_effects = NoEffects
            /\ inv_pc \in {"filter", "dropped"}

C15_Witness ==
    /\ inv_pc = "dropped"
    /\ inv_cmd = "del"
    /\ inv_event.private
    /\ inv_event.bot_can_delete /\ inv_event.member_can_delete
    /\ inv_effects = NoEffects

RECURSIVE Occurrences(_, _)
\* how often leaf occurs in a filter
Occurrences(flt, leaf) ==
    IF flt.op = "NONE" THEN 0
    ELSE IF flt.op = "LEAF" THEN (IF flt.leaf = leaf THEN 1 ELSE 0)
    ELSE IF flt.op = "NOT" THEN Occurrences(flt.base, leaf)
    ELSE Occurrences(flt.base, leaf) + Occurrences(flt.other, leaf)

RECURSIVE OccurrencesIn(_, _)
OccurrencesIn(cmds, leaf) ==
    IF cmds = {} THEN 0
    ELSE LET c == CHOOSE c \in cmds : TRUE
         IN Occurrences(CommandFilters[c], leaf) + OccurrencesIn(cmds \ {c}, leaf)

Reachable(leaf) == OccurrencesIn(cmd_objs, leaf) > 0

\* no leaf is called before it holds the host
InjectedBeforeEvaluation ==
    /\ \A leaf \in Evaluated : include_bot(leaf) => flt_anjani[leaf] = "bot"
    /\ inv_effects.raised # "AttributeError"

\* C16 as stated: every include_bot leaf reachable from the predicate of a
\* constructed Command had the host injected exactly once, and before any
\* evaluation.
C16_InjectedExactlyOnce ==
    /\ \A leaf \in FilterLeaves :
         (include_bot(leaf) /\ Reachable(leaf)) => injections[leaf] = 1
    /\ InjectedBeforeEvaluation

\* C16, amended: every include_bot leaf has the host injected once for each
\* occurrence in the predicate of each Command constructed, a shared leaf once
\* per command and always with the same host; a leaf without the flag is never
\* injected; the injection precedes every evaluation.
C16_InjectedOncePerCommand ==
    /\ \A leaf \in FilterLeaves :
         /\ injections[leaf] =
              IF include_bot(leaf) THEN OccurrencesIn(cmd_objs, leaf) ELSE 0
         /\ flt_anjani[leaf] = IF include_bot(leaf) /\ Reachable(leaf) THEN "bot" ELSE None
    /\ InjectedBeforeEvaluation

C16_Witness ==
    /\ {"save", "delnote", "nested"} \subseteq cmd_objs
    /\ injections["admin_only"] >= 3
    /\ inv_cmd = "nested"
    /\ "admin_only" \in Evaluated

\* ------------------------------------------------------------------ the dispatcher's claims

TasksOf(cls) == {i \in 1..Len(tasks) : tasks[i].plugin = cls}

C17_HoldsWithoutFailedLoad ==
    (lastOp = "dispatch_event" /\ StaleCount(Registry) = 0)
      => \A cls \in ClassIds :
           Cardinality(TasksOf(cls)) =
             IF /\ \E i \in 1..Len(plugins) : plugins[i].cls = cls
                /\ lastArg \in Range(ClassDef(cls).events)
             THEN 1 ELSE 0

\* ------------------------------------------------------------------ the claims on cmd_backup

TaskRaised(i) == bk_tasks[i].outcome.exc # None

\* C18: when the task of one plugin raises, the collection is not aborted: the
\* result of every other plugin's task is still aggregated into the payload.
C18_RaisingTaskDoesNotAbort ==
    (bk_pc = "returned" /\ \E i \in 1..Len(bk_tasks) : TaskRaised(i))
      => \A j \in 1..Len(bk_tasks) :
           ~TaskRaised(j) => bk_tasks[j].outcome.keys \subseteq bk_data

\* C19: a plugin whose on_plugin_backup returned an empty mapping contributes no key
\* to the payload; when every plugin returned an empty mapping, no file is written
\* and the command answers "backup-null".
C19_EmptyMappingContributesNothing ==
    /\ \A i \in 1..Len(bk_tasks) :
         (~TaskRaised(i) /\ bk_tasks[i].outcome.keys = {})
           => /\ ClassDef(bk_tasks[i].plugin).name \notin bk_data
              /\ ClassDef(bk_tasks[i].plugin).name \notin bk_file.keys
    /\ (/\ bk_pc = "returned"
        /\ \A i \in 1..Len(bk_tasks) : ~TaskRaised(i) /\ bk_tasks[i].outcome.keys = {})
         => (~bk_file.written /\ bk_return = "backup-null" /\ bk_raised = None)

\* every one of two or more plugins returned an empty mapping and the command returned
C19_Witness ==
    /\ bk_pc = "returned"
    /\ Len(bk_tasks) >= 2
    /\ \A i \in 1..Len(bk_tasks) : ~TaskRaised(i) /\ bk_tasks[i].outcome.keys = {}
    /\ bk_return = "backup-null"

\* one plugin returned an empty mapping, another one a document, and the file was written
C19_WitnessMixed ==
    /\ bk_pc = "returned"
    /\ bk_file.written
    /\ \E i \in 1..Len(bk_tasks) : ~TaskRaised(i) /\ bk_tasks[i].outcome.keys = {}

\* ------------------------------------------------------------------ the claims on start

\* the plugins whose handler of the event completed, in order of completion
DoneFor(event) ==
    LET RECURSIVE Sel(_)
        Sel(n) == IF n = 0 THEN <<>>
                  ELSE IF st_done[n].event = event
                       THEN Append(Sel(n - 1), st_done[n].plugin)
                       ELSE Sel(n - 1)
    IN Sel(Len(st_done))

\* the plugins listening to the event, in registration order
RegisteredFor(event) ==
    [i \in 1..Len(ListenersOf(event)) |-> ListenersOf(event)[i].plugin]

IsPrefix(s, t) == Len(s) <= Len(t) /\ \A i \in 1..Len(s) : s[i] = t[i]

\* C20: the dispatch of "load", "start" or "started" returns only after the handler
\* of every plugin for the event has completed, the handlers being awaited in
\* registration order; in start, loaded becomes true only after every on_load
\* handler has completed.
C20_LifecycleAwaitedInOrder ==
    /\ \A event \in LifecycleEvents :
        /\ IsPrefix(DoneFor(event), RegisteredFor(event))
        /\ event \in Range(st_returned) => DoneFor(event) = RegisteredFor(event)
    /\ loaded => /\ "load" \in Range(st_returned)
                 /\ DoneFor("load") = RegisteredFor("load")

\* start has run to its end with three on_load handlers and a handler of "started"
C20_Witness ==
    /\ st_pc = "done"
    /\ loaded
    /\ Len(DoneFor("load")) = 3
    /\ Len(DoneFor("started")) = 1
    /\ st_returned = <<"load", "start", "started">>

\* C21: no command handler, filter leaf or listener is run for an inbound event
\* before start has set user and uid, filled staff and chats_languages and
\* completed the "start" handlers of all plugins.
C21_HostInitializedBeforeTraffic ==
    st_inbound.seen
      => /\ st_inbound.host.user
         /\ st_inbound.host.staff
         /\ st_inbound.host.languages
         /\ st_inbound.started

\* ------------------------------------------------------------------ the claims on dispatch_event

\* C22: a dispatch without get_tasks of an event that is no lifecycle event returns
\* once every handler task is scheduled: it terminates even when a handler never
\* completes, it waits for no handler, and it cancels no handler task.
C22_ScheduleAndForget ==
    /\ (dp_pc = "scheduling") ~> (dp_pc = "returned")
    /\ [](\A i \in 1..Len(dp_tasks) : dp_tasks[i].state # "cancelled")
    /\ [][(dp_pc = "scheduling" /\ dp_pc' = "returned")
            => (dp_tasks' = dp_tasks /\ Len(dp_tasks) = Len(ListenersOf(dp_event)))]_vars

\* a dispatch returned while the tasks of its two or more handlers were all pending
C22_Witness ==
    /\ dp_pc = "returned"
    /\ Len(dp_tasks) >= 2
    /\ \A i \in 1..Len(dp_tasks) : dp_tasks[i].state = "pending"

\* ------------------------------------------------------------------ the claims on the platform handlers

\* the built-in event names that have a listener
Listened == {name \in BuiltinEvents : Len(ListenersOf(name)) > 0}

\* the built-in event names with a handler installed on the client
Installed == {name \in BuiltinEvents : client_handlers[name] > 0}

\* C23: after every update_plugin_events, a platform handler is installed for a
\* built-in event name iff the name has a listener; no name ever has two handlers
\* installed, and events_activated is the number of names with a handler installed.
C23_HandlerIffListener ==
    /\ \A name \in BuiltinEvents : client_handlers[name] \in {0, 1}
    /\ events_activated(Registry) = Cardinality(Installed)
    /\ lastOp = "update_plugin_events" => Installed = Listened

\* update_plugin_events has run with handlers installed for some names and none for others
C23_Witness ==
    /\ lastOp = "update_plugin_events"
    /\ Cardinality(Installed) >= 2
    /\ Installed # BuiltinEvents

\* ------------------------------------------------------------------ the claims on respond

\* the operations of the last call on the client, in order
LastOps == [i \in 1..Len(rs_last.ops) |-> rs_last.ops[i].op]

Sent(op) == op \notin {"delete", "edit"}

LastHasMedia == \E key \in Range(MediaKeys) : ~Falsy(rs_last.kwargs[key])

\* what C24 says of the messages a call sends and edits
RespondModes ==
    /\ rs_last.mode = "reply"
         => /\ \E i \in 1..Len(LastOps) : Sent(LastOps[i])
            /\ rs_last.returned = rs_sent
            /\ \A i \in 1..Len(LastOps) : LastOps[i] # "edit"
    /\ (rs_last.mode = "edit" /\ rs_last.response = NoMessage)
         => /\ Len(LastOps) = 1 /\ Sent(LastOps[1])
            /\ rs_last.returned = rs_sent
    /\ (rs_last.mode = "edit" /\ rs_last.response # NoMessage /\ ~LastHasMedia)
         => /\ rs_last.ops = << Op("edit", rs_last.response) >>
            /\ rs_last.returned = rs_last.response

\* C24 as stated: respond in mode "reply" always sends a new message; in mode "edit"
\* it edits the tracked response when there is one and else sends a reply; after
\* each call response is the message sent or edited, so text-only edit-mode
\* responds send one message and edit it from then on.
C24_ResponseTracksLastMessage ==
    (rs_calls > 0 /\ rs_last.mode \in {"reply", "edit"})
      => /\ RespondModes
         /\ rs_response = rs_last.returned /\ rs_response # NoMessage
         /\ rs_hist.text_edit_only => rs_sent = 1

\* C24 amended: after a call without delete_after response is the message sent or
\* edited, after a call with delete_after response is absent; text-only edit-mode
\* responds without delete_after send one message and edit it from then on.
C24_ResponseTracksUnlessDeleted ==
    (rs_calls > 0 /\ rs_last.mode \in {"reply", "edit"})
      => /\ RespondModes
         /\ Falsy(rs_last.delete_after)
              => (rs_response = rs_last.returned /\ rs_response # NoMessage)
         /\ ~Falsy(rs_last.delete_after) => rs_response = NoMessage
         /\ (rs_hist.text_edit_only /\ ~rs_hist.delete_after) => rs_sent = 1

\* three text-only edit-mode responds were made: one message sent, then edited
C24_Witness ==
    /\ rs_calls = 3
    /\ rs_hist.text_edit_only
    /\ ~rs_hist.delete_after
    /\ rs_sent = 1
    /\ rs_last.ops = << Op("edit", 1) >>
    /\ rs_response = 1

\* C25: in edit mode with a tracked response, a response with media is never edited
\* in place: the tracked response is deleted, then a new message is sent, which is
\* the message respond returns for tracking; an empty or absent media value is no media.
C25_MediaIsDeleteAndResend ==
    (rs_calls > 0 /\ rs_last.mode = "edit" /\ rs_last.response # NoMessage)
      => IF LastHasMedia
         THEN /\ Len(rs_last.ops) = 2
              /\ rs_last.ops[1] = Op("delete", rs_last.response)
              /\ Sent(rs_last.ops[2].op) /\ rs_last.ops[2].op # "reply"
              /\ rs_last.ops[2].msg = rs_last.returned
              /\ rs_last.returned # rs_last.response
              /\ rs_last.response \in rs_deleted
              /\ Falsy(rs_last.delete_after) => rs_response = rs_last.returned
         ELSE rs_last.ops = << Op("edit", rs_last.response) >>

\* cmd_cat: a text response, then an edit-mode response with a photo
C25_Witness ==
    /\ rs_calls = 2
    /\ rs_last.mode = "edit"
    /\ rs_last.kwargs["photo"] = "cat.jpg"
    /\ rs_last.ops = << Op("delete", 1), Op("reply_photo", 2) >>
    /\ rs_response = 2

\* an edit-mode response with an empty photo value edits the tracked response
C25_WitnessEmptyValue ==
    /\ rs_last.mode = "edit"
    /\ rs_last.kwargs["photo"] = ""
    /\ rs_last.ops = << Op("edit", 1) >>

\* ------------------------------------------------------------------ the claims on Context

\* C26 as stated: for the text of prefix, command token and tokens t1..tn, segments
\* is <<t1, ..., tn>>, the invoker token stripped, and args is <<t2, ..., tn>>.
C26_SegmentsWithoutInvoker ==
    cx_ctx # NoCtx
      => /\ cx_ctx.segments = cx_msg.words
         /\ \A i \in 1..Len(cx_reads) : cx_reads[i] = SliceFrom(cx_msg.words, 1)

\* C26 amended: segments is <<c, t1, ..., tn>>, the invoker token c first, and args
\* is <<t1, ..., tn>>.
C26_SegmentsStartWithInvoker ==
    cx_ctx # NoCtx
      => /\ cx_ctx.segments = <<cx_msg.token>> \o cx_msg.words
         /\ cx_ctx.invoker = cx_msg.token
         /\ \A i \in 1..Len(cx_reads) : cx_reads[i] = cx_msg.words

\* "/note save hello world" was tokenized and its args read
C26_Witness ==
    /\ cx_msg.text = <<"/", "n", "o", "t", "e", " ", "s", "a", "v", "e", " ", "h", "e", "l",
                       "l", "o", " ", "w", "o", "r", "l", "d">>
    /\ cx_reads = << << <<"s", "a", "v", "e">>, <<"h", "e", "l", "l", "o">>,
                        <<"w", "o", "r", "l", "d">> >> >>

\* C27: args is computed on the first access as segments[1:], segments[0] being the
\* invoker token, and cached: every later access returns the same value and does
\* not compute it again.
C27_ArgsComputedOnceAndCached ==
    /\ cx_reads = <<>> => (~cx_args.set /\ cx_computed = 0)
    /\ cx_reads # <<>>
         => /\ cx_computed = 1
            /\ cx_args = [set |-> TRUE, value |-> SliceFrom(cx_ctx.segments, 1)]
            /\ \A i \in 1..Len(cx_reads) : cx_reads[i] = SliceFrom(cx_ctx.segments, 1)

\* args was read twice on a message with two tokens after the command
C27_Witness ==
    /\ Len(cx_reads) = 2
    /\ Len(cx_reads[2]) = 2
    /\ cx_computed = 1

\* the text after the prefix and the command token, and after the mention when it
\* follows the command token at once, less the separator
ArgumentText == join(<<" ">>, cx_msg.words)

\* C28: input is the text with the prefix and the command token removed, and the
\* mention of the bot only where it follows the command token at once; no
\* character of the argument text is dropped, wherever the bot's username occurs.
C28_InputKeepsArgumentText ==
    cx_ctx # NoCtx => cx_ctx.input = ArgumentText

\* ------------------------------------------------------------------ the claims on union annotations and BadResult

\* the alternative of a two-alternative union that is not NoneType
NonAbsent(annotation) ==
    IF annotation.args[1] = "NoneType" THEN annotation.args[2] ELSE annotation.args[1]

\* the parameter with its union annotation replaced by the plain alternative
Unwrapped(param) == [param EXCEPT !.annotation = Plain(NonAbsent(@))]

\* C29: transform converts a parameter annotated Optional[T], Union[T, None] or
\* Union[None, T] with T, wherever the None alternative is listed.
C29_UnionConvertsWithNonAbsent ==
    \A k \in 1..Len(sig) :
      (/\ IsPositional(sig[k]) /\ sig[k].annotation.origin = "Union"
       /\ k <= Len(to_convert))
        => \A r \in Replies :
             transform(Ctx(r), sig[k], to_convert[k])
               = transform(Ctx(r), Unwrapped(sig[k]), to_convert[k])

\* the same for the unions that list the None alternative last
C29_HoldsWithNoneLast ==
    \A k \in 1..Len(sig) :
      (/\ IsPositional(sig[k]) /\ sig[k].annotation.origin = "Union"
       /\ sig[k].annotation.args[2] = "NoneType"
       /\ k <= Len(to_convert))
        => \A r \in Replies :
             transform(Ctx(r), sig[k], to_convert[k])
               = transform(Ctx(r), Unwrapped(sig[k]), to_convert[k])

\* a parameter converted by UserConverter or ChatConverter
IsUserOrChat(param) ==
    /\ IsPositional(param)
    /\ param.annotation # NoAnnotation
    /\ param.annotation.args[1] \in {"User", "Chat"}

\* the next token is converted by an entity converter that asks the client, and
\* the client answers with a value that is neither a User nor a Chat
UnexpectedResult ==
    /\ conv_pc = "loop" /\ items # <<>> /\ idx < Len(to_convert)
    /\ IsUserOrChat(Head(items))
    /\ ClientAsked(Head(items), to_convert[idx + 1])
    /\ (idx' = idx + 1 \/ conv_pc' = "raised")
    /\ client_reply' = "list"

\* C30: when the client returns a value of an unexpected type to the user or chat
\* converter, the conversion raises BadResult; BadResult leaves parse_arguments and
\* is neither replaced by the parameter's default nor passed on as an argument.
C30_BadResultPropagates ==
    /\ [][UnexpectedResult
            => /\ conv_pc' = "raised"
               /\ conv_raised'.exc = "BadResult"
               /\ args' = args]_vars
    /\ [](\A k \in 1..Len(args) : args[k].exc # "BadResult")

\* BadResult left parse_arguments at a parameter that declares a default
C30_Witness ==
    /\ conv_pc = "raised"
    /\ conv_raised.exc = "BadResult"
    /\ client_reply = "list"
    /\ items # <<>> /\ IsUserOrChat(Head(items))
    /\ Head(items).default # Empty

\* a parameter converted by UserConverter or ChatMemberConverter
IsUserOrMember(param) ==
    /\ IsPositional(param)
    /\ param.annotation # NoAnnotation
    /\ param.annotation.args[1] \in {"User", "ChatMember"}

\* a token the entity converters hand to the platform client
IsLookupToken(arg) == isdigit(arg) \/ startswith(arg, <<"@">>)

\* the k-th parameter is an entity parameter and has a token
EntityTokenAt(k) ==
    /\ k <= Len(sig) /\ k <= Len(to_convert)
    /\ \A j \in 1..k : IsPositional(sig[j])
    /\ IsUserOrMember(sig[k])

\* how the parameters with a token were resolved: an identifier or username by
\* the client alone, any other token by a matching text mention or to no value;
\* a conversion that raises on such a token is the member lookup of a mention
ResolvedInPriorityOrder ==
    \A k \in 1..Len(sig) :
      EntityTokenAt(k) =>
        LET arg == to_convert[k]
            T == sig[k].annotation.args[1]
        IN /\ (IsLookupToken(arg) /\ Len(args) >= k)
                => /\ client_reply # None
                   /\ \A e \in EntitySets, r \in Replies :
                        transform([reply |-> r, entities |-> e], sig[k], arg)
                          = transform(Ctx(r), sig[k], arg)
           /\ (~IsLookupToken(arg) /\ Len(args) >= k)
                => IF arg \notin msg_entities.mentions THEN args[k] = NoneV
                   ELSE IF T = "User" THEN args[k] = ObjV("User", arg)
                   \* the member of the chat is looked up by the mentioned user's id
                   ELSE /\ client_reply # None
                        /\ args[k] = transform(Ctx(client_reply), sig[k], arg).value
           /\ (~IsLookupToken(arg) /\ Len(args) = k - 1 /\ conv_pc = "raised")
                => /\ arg \in msg_entities.mentions
                   /\ client_reply # None

\* C31: the user and chat-member converters resolve a token in the order
\* identifier, username, text mention: a token of digits or one starting with "@"
\* is resolved by a client lookup alone, never by the message's entities; any other
\* token is resolved by a text-mention entity covering exactly the token, and to
\* no value when no entity matches.
C31_ResolvedByIdUsernameThenMention == ResolvedInPriorityOrder

\* the same for a message whose entities attribute is a list
C31_HoldsWithEntityList == ~msg_entities.none => ResolvedInPriorityOrder

\* the task's plugin returned a document under its name
Contributed(i) == ~TaskRaised(i) /\ bk_tasks[i].outcome.keys # {}

\* chat_id, and every contributing plugin's document under the plugin's name
ExpectedPayload ==
    ChatIdOnly \cup { <<ClassDef(bk_tasks[i].plugin).name, bk_tasks[i].plugin>> :
                      i \in {j \in 1..Len(bk_tasks) : Contributed(j)} }

\* C32: the payload aggregated from the collected plugin_backup tasks is the same
\* for every order in which the tasks complete: every contributing plugin's mapping
\* is under the plugin's own name, and no contribution overwrites another one's or
\* the chat_id entry.
C32_PayloadIndependentOfCompletionOrder ==
    (bk_pc = "collected" \/ bk_file.written)
      => /\ bk_payload = ExpectedPayload
         /\ \A item, other \in bk_payload : item[1] = other[1] => item = other
         /\ Keys(bk_payload) = bk_data

\* two plugins contributed, and the task that is first in the list completed last
C32_Witness ==
    /\ bk_file.written
    /\ Cardinality({i \in 1..Len(bk_tasks) : Contributed(i)}) >= 2
    /\ Len(bk_done) = Len(bk_tasks)
    /\ bk_done[Len(bk_done)] = 1

\* ------------------------------------------------------------------ the claims on cmd_restore

\* the plugin's document is in the backup
InBackup(cls) == ClassDef(cls).name \in DOMAIN rt_data.entries

\* C33: restoring the mapping that the backup of a chat aggregated, for the same
\* chat, leaves the stored document of every contributing plugin equal to what it
\* was when the backup was taken.
C33_RestoreAfterBackupIsIdentity ==
    \A cls \in RestorePlugins :
      (InBackup(cls) /\ rt_handlers[cls] = "done")
        => /\ rt_store[cls] = rt_saved[cls]
           /\ rt_data.entries[ClassDef(cls).name] = rt_saved[cls]

\* a document that was written after the backup is back at its saved value
C33_Witness ==
    /\ rt_pc = "returned" /\ rt_reply = "backup-done"
    /\ \E cls \in RestorePlugins :
         /\ InBackup(cls) /\ rt_handlers[cls] = "done"
         /\ rt_store[cls] = rt_saved[cls]
         /\ \E other \in RestorePlugins \ {cls} :
              /\ InBackup(other) /\ rt_handlers[other] = "pending"
              /\ rt_store[other] # rt_saved[other]

\* C37: cmd_restore answers "backup-done" only after every plugin's
\* on_plugin_restore has finished; no restore handler is pending when the user is
\* told that the restore is done.
C37_DoneAfterEveryRestoreHandler ==
    rt_reply = "backup-done" => \A cls \in RestorePlugins : rt_handlers[cls] # "pending"

\* C38: restoring a mapping without an entry for a plugin leaves that plugin's
\* stored data as it is, and the plugin's restore handler completes without
\* raising.
C38_MissingEntryLeavesPluginAlone ==
    [][\A cls \in RestorePlugins :
         (~InBackup(cls) /\ rt_handlers[cls] = "pending" /\ rt_handlers'[cls] # "pending")
           => /\ rt_store'[cls] = rt_store[cls]
              /\ rt_handlers'[cls] = "done"]_vars

\* ------------------------------------------------------------------ the claims on redaction

\* no configured value occurs in the text
FreeOfSecrets(text) == \A key \in ConfigKeys : ~contains(text, rd_config[key])

\* C34: with redact enabled the text respond delivers contains none of the values
\* of api_id, api_hash, bot_token and db_uri, whatever the text and the
\* configuration, also when one value is part of another; with redact disabled the
\* text is delivered as it is.
C34_NoSecretDelivered ==
    rd_delivered # NoText
      => /\ rd_redact => FreeOfSecrets(rd_delivered)
         /\ ~rd_redact => rd_delivered = rd_text

\* the same for the configurations none of whose values occurs in "[REDACTED]"
C34_HoldsWhenMarkerHoldsNoSecret ==
    (\A key \in ConfigKeys : ~contains(Redacted, rd_config[key])) => C34_NoSecretDelivered

\* a Context.respond call with a delete_after that sent or edited a message
RespondWithDeleteAfter ==
    /\ rs_calls' = rs_calls + 1
    /\ rs_last'.raised = None
    /\ ~Falsy(rs_last'.delete_after)

\* C35: Context.respond with a positive delete_after returns without waiting for
\* the delay: the deletion of the message just sent is left to a background task,
\* which runs later, and response is cleared, so that the next edit-mode respond of
\* the invocation sends a new message and does not edit the one to be deleted.
C35_DeleteAfterRunsInBackground ==
    /\ [][RespondWithDeleteAfter
            => /\ rs_last'.returned \in rs_scheduled'
               /\ rs_last'.returned \notin rs_deleted'
               /\ rs_response' = NoMessage]_vars
    /\ [][(rs_calls' = rs_calls + 1 /\ ~Falsy(rs_last.delete_after) /\ rs_last.raised = None
           /\ rs_last'.mode = "edit")
            => /\ Len(rs_last'.ops) = 1
               /\ Sent(rs_last'.ops[1].op)
               /\ rs_last'.returned = rs_sent' /\ rs_sent' = rs_sent + 1]_vars
    /\ [][rs_calls' = rs_calls + 1
            => \A i \in 1..Len(rs_last'.ops) :
                 rs_last'.ops[i].op = "edit"
                   => rs_last'.ops[i].msg \notin rs_scheduled \cup rs_deleted]_vars
    /\ [][\A msg \in rs_scheduled : msg \in rs_deleted' => msg \notin rs_scheduled']_vars

\* purge's answer: sent with delete_after, still there when the next edit-mode
\* respond has sent a new message
C35_Witness ==
    /\ rs_calls = 2
    /\ rs_last.mode = "edit" /\ Falsy(rs_last.delete_after)
    /\ rs_last.ops = << Op("reply", 2) >>
    /\ rs_scheduled = {1}
    /\ rs_deleted = {}
    /\ rs_response = 2

\* C39: respond with a mode that is neither "reply" nor "edit" raises ValueError;
\* it sends, edits and deletes no message, with or without a tracked response, and
\* Context.response stays as it was.
C39_UnknownModeRaises ==
    [][(rs_calls' = rs_calls + 1 /\ rs_last'.mode \notin {"reply", "edit"})
         => /\ rs_last'.raised = "ValueError"
            /\ rs_last'.ops = <<>>
            /\ rs_sent' = rs_sent
            /\ rs_deleted' = rs_deleted
            /\ rs_scheduled' = rs_scheduled
            /\ rs_response' = rs_response]_vars

\* a call with mode "append" failed while a response was tracked
C39_Witness ==
    /\ rs_last.mode = "append"
    /\ rs_last.raised = "ValueError"
    /\ rs_last.response # NoMessage
    /\ rs_response = rs_last.response
    /\ ~Falsy(rs_last.delete_after)

\* ------------------------------------------------------------------ the claim on a failed load

\* C36: load_plugin is all-or-nothing: when it fails, for a duplicate plugin name
\* or for a command name or alias that collides while the commands are registered,
\* the registry, the command table and the listener table are as they were before
\* the call, and no listener of the rejected plugin is registered.
C36_FailedLoadChangesNothing ==
    [][(lastOp' = "load_plugin" /\ raised' # None)
         => /\ plugins' = plugins
            /\ TablesUnchanged
            /\ \A event \in DOMAIN listeners' :
                 \A i \in 1..Len(listeners'[event]) :
                   listeners'[event][i].plugin = lastArg'
                     => \E j \in 1..Len(plugins) : plugins[j].cls = lastArg']_vars

\* ------------------------------------------------------------------ the claims on keyword-only parameters

\* the value parse_arguments bound to the parameter name, a one-element set, or {}
BoundTo(name) == {kwargs[i][2] : i \in {j \in 1..Len(kwargs) : kwargs[j][1] = name}}

\* a string without blank at either end
Stripped(value) == value.t = "str" /\ strip(value.s) = value.s

\* the parameter at position p is bound to the text of the tokens from p on, to
\* the empty string when there is none, whatever its default
BoundToRest(p) ==
    /\ BoundTo(sig[p].name) # {}
    /\ \A value \in BoundTo(sig[p].name) :
         /\ Stripped(value)
         /\ value = StrV(strip(join(<<" ">>, SubSeq(to_convert, p, Len(to_convert)))))
         /\ Len(to_convert) < p => value = StrV(<<>>)

\* parse_arguments returned for a handler whose parameters before the first
\* keyword-only one are positional
ReturnedWithKeywordOnly ==
    /\ conv_pc = "done"
    /\ FirstKeywordOnly(sig) > 0
    /\ \A q \in 1..(FirstKeywordOnly(sig) - 1) : IsPositional(sig[q])

====
